---------------------------- MODULE Spec2Model ----------------------------
(***************************************************************************)
(* meshcore: event ingestion service, state projection and the event and   *)
(* state stores (in-memory and SQLite).                                    *)
(*                                                                         *)
(* Three specifications share the variables below:                         *)
(*   Spec            MeshEventService.run over one source, one event store,*)
(*                   one state store and one publisher                     *)
(*   SpecStore       direct calls on an event store                        *)
(*   SpecProjection  direct calls of StateProjection.project               *)
(***************************************************************************)
EXTENDS Integers, Sequences, FiniteSets, TLC

(***************************************************************************)
(* Bounds of the model                                                     *)
(***************************************************************************)
MaxPulled == 2      \* events the source yields in one run of the service
MaxFaults == 3      \* injected failures of store/projection/publisher calls
MaxId == 2          \* distinct event ids
MaxTime == 2        \* distinct timestamps
MaxStoreOps == 3    \* direct calls on the event store in SpecStore
MaxProjections == 2 \* direct calls on the projection in SpecProjection

(***************************************************************************)
(* Optional values: None is the empty sequence, a present value x is <<x>> *)
(***************************************************************************)
None == << >>
Some(x) == << x >>

(***************************************************************************)
(* domain/models.py                                                        *)
(***************************************************************************)
Nodes == {"node-alpha", "node-bravo"}
EventTypes == {"telemetry", "position", "text", "node_info"}
EventIds == 1..MaxId
Times == 1..MaxTime

\* A payload is a dict[str, Any]: a function from the keys to a value, or to
\* Absent when the dict has no such key.
Keys == {"text", "raw", "battery", "lat"}
Absent == "<absent>"
EmptyDict == [k \in Keys |-> Absent]
TextPayload == [EmptyDict EXCEPT !["text"] = "ping"]
RawPayload == [EmptyDict EXCEPT !["raw"] = "ff"]
TelemetryPayload == [EmptyDict EXCEPT !["battery"] = "85"]
PositionPayload == [EmptyDict EXCEPT !["lat"] = "40.7"]

\* bool(d) of a dict, and dict.get(key)
IsEmptyDict(p) == \A k \in Keys : p[k] = Absent
DictGet(p, k) == IF p[k] = Absent THEN None ELSE Some(p[k])

\* MeshEvent (provenance and ingested_at are carried verbatim and read by none
\* of the operations modelled here)
MeshEvent(i, n, ty, ts, p) ==
    [event_id |-> i, node_id |-> n, event_type |-> ty, timestamp |-> ts,
     payload |-> p]

\* NodeState
NodeState(n, ls, fs, c, tel, pos, txt) ==
    [node_id |-> n, last_seen |-> ls, first_seen |-> fs, event_count |-> c,
     last_telemetry |-> tel, last_position |-> pos, last_text |-> txt]

(***************************************************************************)
(* Conversions of the SQLite adapters.  A converted value is tagged with   *)
(* its encoding, so a row never compares equal to the object it encodes.   *)
(***************************************************************************)
isoformat(t) == [iso |-> t]
fromisoformat(s) == s.iso
json_dumps(p) == [json |-> p]
json_loads(s) == s.json
uuid_str(i) == [uuid |-> i]
UUID(s) == s.uuid

(***************************************************************************)
(* adapters/storage/memory.py: InMemoryEventStore                          *)
(* adapters/storage/sqlite.py: SqliteEventStore                            *)
(* An event store is [kind, events, event_ids]: for "memory" the list      *)
(* _events and the set _event_ids; for "sqlite" the rows of table events in*)
(* insertion order (event_ids is unused and stays empty).                  *)
(***************************************************************************)
StoreKinds == {"memory", "sqlite"}
NewEventStore(kind) == [kind |-> kind, events |-> << >>, event_ids |-> {}]

EventRow(e) ==
    [id |-> uuid_str(e.event_id), node_id |-> e.node_id,
     event_type |-> e.event_type, timestamp |-> isoformat(e.timestamp),
     payload_json |-> json_dumps(e.payload)]

RowEvent(row) ==
    MeshEvent(UUID(row.id), row.node_id, row.event_type,
              fromisoformat(row.timestamp), json_loads(row.payload_json))

InMemoryEventStore_event_exists(s, id) == id \in s.event_ids

SqliteEventStore_event_exists(s, id) ==
    \E k \in 1..Len(s.events) : s.events[k].id = uuid_str(id)

event_exists(s, id) ==
    IF s.kind = "memory" THEN InMemoryEventStore_event_exists(s, id)
    ELSE SqliteEventStore_event_exists(s, id)

\* append returns the pair <<store afterwards, result>>; the result of the
\* in-memory append is the "was inserted" flag, the SQLite append returns
\* nothing (INSERT OR IGNORE).
InMemoryEventStore_append(s, e) ==
    IF e.event_id \in s.event_ids
    THEN << s, Some(FALSE) >>
    ELSE << [s EXCEPT !.events = Append(@, e),
                      !.event_ids = @ \cup {e.event_id}], Some(TRUE) >>

\* SqliteEventStore_append with INSERT OR REPLACE in place of INSERT OR IGNORE
SqliteEventStore_append_Replaces(s, e) ==
    IF \E k \in 1..Len(s.events) : s.events[k].id = EventRow(e).id
    THEN << [s EXCEPT !.events =
                [k \in 1..Len(s.events) |->
                    IF s.events[k].id = EventRow(e).id THEN EventRow(e)
                    ELSE s.events[k]]], None >>
    ELSE << [s EXCEPT !.events = Append(@, EventRow(e))], None >>

SqliteEventStore_append(s, e) ==
    IF \E k \in 1..Len(s.events) : s.events[k].id = EventRow(e).id
    THEN << s, None >>
    ELSE << [s EXCEPT !.events = Append(@, EventRow(e))], None >>

append(s, e) ==
    IF s.kind = "memory" THEN InMemoryEventStore_append(s, e)
    ELSE SqliteEventStore_append(s, e)

\* The stored events as MeshEvents, in storage order.
StoredEvents(s) ==
    IF s.kind = "memory" THEN s.events
    ELSE [k \in 1..Len(s.events) |-> RowEvent(s.events[k])]

\* The text of a stored timestamp as character codes, compared by SQLite byte
\* by byte: time t stands for (t + 1) / 2 seconds in UTC, written as the
\* seconds digit, the fraction ".5" if there is one (isoformat leaves a zero
\* fraction out) and the "+" of the offset "+00:00".
IsoText(s) ==
    << 48 + ((s.iso + 1) \div 2) >>
      \o (IF (s.iso + 1) % 2 = 1 THEN << 46, 53 >> ELSE << >>) \o << 43 >>

RECURSIVE TextLeq(_, _)
TextLeq(a, b) ==
    IF a = << >> THEN TRUE
    ELSE IF b = << >> THEN FALSE
    ELSE IF a[1] # b[1] THEN a[1] < b[1]
    ELSE TextLeq(Tail(a), Tail(b))

\* an in-memory replay whose upper bound is exclusive
InMemoryEventStore_replay_Exclusive(s, since, until) ==
    LET Keep(e) == /\ ~ (since # None /\ e.timestamp < since[1])
                   /\ ~ (until # None /\ e.timestamp >= until[1])
    IN  SelectSeq(s.events, Keep)

\* replay(since, until) of the in-memory store: _events in list order,
\* without those outside the window
InMemoryEventStore_replay(s, since, until) ==
    LET Keep(e) == /\ ~ (since # None /\ e.timestamp < since[1])
                   /\ ~ (until # None /\ e.timestamp > until[1])
    IN  SelectSeq(s.events, Keep)

\* The row lists _fetch_all may return: the rows inside the window, in any
\* order that is ascending in the timestamp text (the order of rows with
\* equal timestamps is up to SQLite).
SqliteEventStore_fetch_all(s, since, until) ==
    LET Keep(row) ==
            /\ since # None =>
                 TextLeq(IsoText(isoformat(since[1])), IsoText(row.timestamp))
            /\ until # None =>
                 TextLeq(IsoText(row.timestamp), IsoText(isoformat(until[1])))
        rows == SelectSeq(s.events, Keep)
        n == Len(rows)
        Orders == { f \in [1..n -> 1..n] : \A i, j \in 1..n : i # j => f[i] # f[j] }
    IN  { [k \in 1..n |-> rows[f[k]]] : f \in
            { g \in Orders : \A i, j \in 1..n : i < j =>
                TextLeq(IsoText(rows[g[i]].timestamp),
                        IsoText(rows[g[j]].timestamp)) } }

SqliteEventStore_replay(s, since, until) ==
    { [k \in 1..Len(rows) |-> RowEvent(rows[k])] :
        rows \in SqliteEventStore_fetch_all(s, since, until) }

\* the event sequences replay(since, until) may yield
replay(s, since, until) ==
    IF s.kind = "memory" THEN { InMemoryEventStore_replay(s, since, until) }
    ELSE SqliteEventStore_replay(s, since, until)

(***************************************************************************)
(* adapters/storage/state_memory.py: InMemoryStateStore                    *)
(* adapters/storage/state_sqlite.py: SqliteStateStore                      *)
(* A state store is [kind, rows]: rows maps each node id to None or to the *)
(* stored NodeState ("memory") or node_states row ("sqlite").              *)
(***************************************************************************)
NewStateStore(kind) == [kind |-> kind, rows |-> [n \in Nodes |-> None]]

\* "json.dumps(x) if x else None" and "json.loads(x) if x else None"
DumpsIfTruthy(opt) ==
    IF opt = None \/ IsEmptyDict(opt[1]) THEN None ELSE Some(json_dumps(opt[1]))
LoadsIfTruthy(opt) ==
    IF opt = None THEN None ELSE Some(json_loads(opt[1]))

StateRow(st) ==
    [node_id |-> st.node_id, last_seen |-> isoformat(st.last_seen),
     first_seen |-> isoformat(st.first_seen), event_count |-> st.event_count,
     last_telemetry_json |-> DumpsIfTruthy(st.last_telemetry),
     last_position_json |-> DumpsIfTruthy(st.last_position),
     last_text |-> st.last_text]

RowState(row) ==
    NodeState(row.node_id, fromisoformat(row.last_seen),
              fromisoformat(row.first_seen), row.event_count,
              LoadsIfTruthy(row.last_telemetry_json),
              LoadsIfTruthy(row.last_position_json), row.last_text)

InMemoryStateStore_upsert_node(s, st) ==
    [s EXCEPT !.rows[st.node_id] = Some(st)]

\* an upsert that replaced the whole row (INSERT OR REPLACE) instead
SqliteStateStore_upsert_node_Replaces(s, st) ==
    [s EXCEPT !.rows[st.node_id] = Some(StateRow(st))]

\* INSERT ... ON CONFLICT(node_id) DO UPDATE SET every column but first_seen
SqliteStateStore_upsert_node(s, st) ==
    IF s.rows[st.node_id] = None
    THEN [s EXCEPT !.rows[st.node_id] = Some(StateRow(st))]
    ELSE [s EXCEPT !.rows[st.node_id] =
             Some([StateRow(st) EXCEPT !.first_seen = s.rows[st.node_id][1].first_seen])]

upsert_node(s, st) ==
    IF s.kind = "memory" THEN InMemoryStateStore_upsert_node(s, st)
    ELSE SqliteStateStore_upsert_node(s, st)

InMemoryStateStore_delete_node(s, n) == [s EXCEPT !.rows[n] = None]

SqliteStateStore_delete_node(s, n) == [s EXCEPT !.rows[n] = None]

delete_node(s, n) ==
    IF s.kind = "memory" THEN InMemoryStateStore_delete_node(s, n)
    ELSE SqliteStateStore_delete_node(s, n)

InMemoryStateStore_get_node(s, n) == s.rows[n]

SqliteStateStore_get_node(s, n) ==
    IF s.rows[n] = None THEN None ELSE Some(RowState(s.rows[n][1]))

get_node(s, n) ==
    IF s.kind = "memory" THEN InMemoryStateStore_get_node(s, n)
    ELSE SqliteStateStore_get_node(s, n)

(***************************************************************************)
(* application/state_projection.py: StateProjection                        *)
(***************************************************************************)
\* create_state with the position payload stored as telemetry
create_state_Swapped(e) ==
    NodeState(e.node_id, e.timestamp, e.timestamp, 1,
              IF e.event_type = "position" THEN Some(e.payload) ELSE None,
              IF e.event_type = "telemetry" THEN Some(e.payload) ELSE None,
              IF e.event_type = "text" THEN DictGet(e.payload, "text") ELSE None)

create_state(e) ==
    NodeState(e.node_id, e.timestamp, e.timestamp, 1,
              IF e.event_type = "telemetry" THEN Some(e.payload) ELSE None,
              IF e.event_type = "position" THEN Some(e.payload) ELSE None,
              IF e.event_type = "text" THEN DictGet(e.payload, "text") ELSE None)

\* update_state that never moves last_seen backwards
update_state_MonotonicLastSeen(st, e) ==
    LET base == [st EXCEPT !.last_seen = IF e.timestamp > @ THEN e.timestamp ELSE @,
                           !.event_count = st.event_count + 1]
    IN  IF e.event_type = "telemetry"
        THEN [base EXCEPT !.last_telemetry = Some(e.payload)]
        ELSE IF e.event_type = "position"
        THEN [base EXCEPT !.last_position = Some(e.payload)]
        ELSE IF e.event_type = "text"
        THEN [base EXCEPT !.last_text = DictGet(e.payload, "text")]
        ELSE base

update_state(st, e) ==
    LET base == [st EXCEPT !.last_seen = e.timestamp,
                           !.event_count = st.event_count + 1]
    IN  IF e.event_type = "telemetry"
        THEN [base EXCEPT !.last_telemetry = Some(e.payload)]
        ELSE IF e.event_type = "position"
        THEN [base EXCEPT !.last_position = Some(e.payload)]
        ELSE IF e.event_type = "text"
        THEN [base EXCEPT !.last_text = DictGet(e.payload, "text")]
        ELSE base

\* The NodeState that project(event) hands to upsert_node.
projected_state(s, e) ==
    LET existing == get_node(s, e.node_id)
    IN  IF existing # None THEN update_state(existing[1], e)
        ELSE create_state(e)

project(s, e) == upsert_node(s, projected_state(s, e))

(***************************************************************************)
(* State                                                                   *)
(***************************************************************************)
VARIABLES
    cfg,              \* MeshEventService.__init__ arguments and store kind
    pc,               \* where run() is suspended
    event,            \* the event run() is handling
    attempt,          \* loop variable of _process_event_with_retry
    processed_count, error_count, duplicate_count,
    store,            \* the event store
    states,           \* the state store
    published,        \* events the publisher has delivered
    pulled,           \* history: the events the source has yielded
    faults,           \* history: number of failed calls so far
    log,              \* history: the calls made for the current event, in order
    hist,             \* history: the ids of the events folded into node
                      \* state and of those handed to the publisher, by
                      \* run(), in order
    snap,             \* history: counters and stores when the current event
                      \* was pulled (Spec) or before the last call
    calls,            \* history: number of direct calls (SpecStore,
                      \* SpecProjection, SpecConn)
    store_class,      \* SpecConn: the class of the SQLite store instance
    db_conn,          \* its _conn: 0 (None) or the number of a connection
    db_lock,          \* its _lock: 0 (None) or the number of a lock
    db_lock_loop,     \* its _lock_loop: 0 (None) or an event loop
    db_closed,        \* its _closed
    connections,      \* the connections sqlite3.connect has returned: for
                      \* each the number of close() calls it has received
    lock_holder,      \* the asyncio.Lock objects created: for each the task
                      \* that holds it, or 0
    task,             \* the callers of the store: where each is suspended
    runner,           \* SpecRunner: main_loop of main.py: where it is, what
                      \* it holds and what it has released
    final_stats,      \* Spec: the counters run() has logged on cancellation
    web,              \* SpecWeb: the dashboard's responses and the calls it
                      \* has made to the commander
    commander,        \* SpecCommander: the MeshtasticCommander's interface
                      \* and the results it has returned
    source,           \* SpecSource: the queue of a serial or TCP source,
                      \* what it has received and what it has yielded
    input, output,    \* the arguments and the result of a function call
    mq_cfg,           \* SpecMqtt: max_retries and initial_retry_delay of the
                      \* MqttEventPublisher
    mq_connected,     \* its _connected
    mq_lock,          \* its _lock: the task that holds it, or 0
    mq_link,          \* the client's connection to the broker: "none",
                      \* "pending" (connect sent, no acknowledgement yet), "up"
    mq_loop,          \* whether the client's network loop has been started
    mq_task,          \* the callers of the publisher
    mq_sent,          \* history: the calls of client.publish, in order
    mq_faults         \* history: number of failed client.publish calls

dbVars == << store_class, db_conn, db_lock, db_lock_loop, db_closed,
             connections, lock_holder, task >>

mqVars == << mq_cfg, mq_connected, mq_lock, mq_link, mq_loop, mq_task,
             mq_sent, mq_faults >>

auxVars == << runner, final_stats, web, commander, source, input, output >>

adapterVars == << dbVars, mqVars, auxVars >>

directVars == << cfg, pc, event, attempt, processed_count, error_count,
                 duplicate_count, store, states, published, pulled, faults,
                 log, snap, hist >>

vars == << cfg, pc, event, attempt, processed_count, error_count,
           duplicate_count, store, states, published, pulled, faults, log,
           snap, hist, calls, adapterVars >>

(***************************************************************************)
(* adapters/storage/sqlite.py, state_sqlite.py: connection and lock of a   *)
(* SQLite store instance, and the tasks that call it.  A task runs on an   *)
(* event loop; tasks of one loop interleave at their awaits only.          *)
(***************************************************************************)
MaxTasks == 2
MaxConnCalls == 4

Tasks == 1..MaxTasks
Loops == {1, 2}
StoreClasses == {"SqliteEventStore", "SqliteStateStore"}

\* the methods that run a statement on the connection under the lock
DbOps(class) ==
    IF class = "SqliteEventStore"
    THEN {"append", "replay", "event_exists", "query_by_type",
          "get_telemetry_series", "search_messages"}
    ELSE {"upsert_node", "get_node", "list_nodes", "delete_node"}

\* what a suspended call has still to do: every database method goes the
\* same way through _ensure_connection, the lock and the worker thread
OpKind(op) == IF op \in {"__aenter__", "close"} THEN op ELSE "statement"

IdleTask(loop) == [pc |-> "idle", op |-> "", loop |-> loop, lock |-> 0,
                   conn |-> 0, last |-> ""]

\* __init__: no connection, not closed; the event store creates its lock,
\* the state store leaves it to _ensure_connection
NewSqliteStore(class) ==
    /\ store_class = class
    /\ db_conn = 0
    /\ db_closed = FALSE
    /\ db_lock = (IF class = "SqliteEventStore" THEN 1 ELSE 0)
    /\ db_lock_loop = 0
    /\ lock_holder = (IF class = "SqliteEventStore" THEN << 0 >> ELSE << >>)
    /\ connections = << >>


(***************************************************************************)
(* application/services.py: MeshEventService                               *)
(***************************************************************************)
DefaultMaxRetries == 3
DefaultRetryDelay == 1

\* The configurations explored: the defaults over the SQLite stores, two
\* attempts over the in-memory stores, a single attempt without projection,
\* and no attempt at all (MESHCORE_MAX_RETRIES=0).
Configs ==
    { [max_retries |-> DefaultMaxRetries, retry_delay |-> DefaultRetryDelay,
       projection |-> TRUE, kind |-> "sqlite"],
      [max_retries |-> 2, retry_delay |-> 2,
       projection |-> TRUE, kind |-> "memory"],
      [max_retries |-> 1, retry_delay |-> 2,
       projection |-> FALSE, kind |-> "sqlite"],
      [max_retries |-> 0, retry_delay |-> DefaultRetryDelay,
       projection |-> TRUE, kind |-> "memory"] }

\* Events a source can yield, one per id, node and type (a type with a
\* snapshot field of its own and one without).  The payload is the
\* one the mock source generates for the type (translate_packet never yields
\* an empty payload); timestamps are backdated, so that an event yielded
\* later may carry an earlier timestamp.
PayloadFor(ty) ==
    IF ty = "telemetry" THEN TelemetryPayload
    ELSE IF ty = "position" THEN PositionPayload
    ELSE IF ty = "text" THEN TextPayload
    ELSE RawPayload

SourceTypes == {"telemetry", "text"}

TimeOf(i) == ((MaxId - i) % MaxTime) + 1

SourceEvents ==
    { MeshEvent(i, n, ty, TimeOf(i), PayloadFor(ty)) :
        << i, n, ty >> \in EventIds \X Nodes \X SourceTypes }

NoEvent == MeshEvent(0, "", "", 0, EmptyDict)

(***************************************************************************)
(* adapters/pubsub/mqtt.py: MqttEventPublisher                             *)
(***************************************************************************)
DefaultMqttMaxRetries == 5
DefaultInitialRetryDelay == 1
MaxRetryDelay == 30
TopicPrefix == "meshcore/events"

MqIdle ==
    [pc |-> "idle", op |-> "", event |-> NoEvent, attempt |-> 0,
     retry_delay |-> 0, topic |-> 0, call |-> 0, tries |-> 0,
     waits |-> << >>, reconnected |-> FALSE, last |-> ""]

\* __init__: not connected, lock free, nothing sent
NewPublisher(max_retries, initial_retry_delay) ==
    /\ mq_cfg = [max_retries |-> max_retries,
                 initial_retry_delay |-> initial_retry_delay]
    /\ mq_connected = FALSE
    /\ mq_lock = 0
    /\ mq_link = "none"
    /\ mq_loop = FALSE
    /\ mq_task = [t \in Tasks |-> MqIdle]
    /\ mq_sent = << >>
    /\ mq_faults = 0

\* main_loop, lines 156-159, before its try block
NewRunner(mqtt_enabled) ==
    [pc |-> "create_publisher", mqtt_enabled |-> mqtt_enabled,
     publisher |-> FALSE, event_store |-> FALSE, state_store |-> FALSE,
     ended |-> "", released |-> << >>, logged |-> << >>, exit |-> ""]

\* the programs around the service, not started
InitAux ==
    /\ runner = NewRunner(TRUE)
    /\ final_stats = << >>
    /\ web = << >>
    /\ commander = << >>
    /\ source = << >>
    /\ input = << >>
    /\ output = << >>

\* the adapters as constructed, with no caller
InitAdapters ==
    /\ NewSqliteStore("SqliteEventStore")
    /\ task = [t \in Tasks |-> IdleTask(1)]
    /\ NewPublisher(DefaultMqttMaxRetries, DefaultInitialRetryDelay)
    /\ InitAux

Entry(op, res, arg) == [op |-> op, res |-> res, arg |-> arg]
Logged(op, res, arg) == log' = Append(log, Entry(op, res, arg))
Snapshot == [processed |-> processed_count, error |-> error_count,
             duplicate |-> duplicate_count, store |-> store,
             states |-> states, published |-> published]

CanFail == faults < MaxFaults

\* nothing folded, nothing handed to the publisher
NoHistory == [folded |-> << >>, handed |-> << >>]

Init ==
    /\ cfg \in Configs
    /\ pc = "pull"
    /\ event = NoEvent
    /\ attempt = 0
    /\ processed_count = 0 /\ error_count = 0 /\ duplicate_count = 0
    /\ store = NewEventStore(cfg.kind)
    /\ states = NewStateStore(cfg.kind)
    /\ published = << >>
    /\ pulled = << >>
    /\ faults = 0
    /\ log = << >>
    /\ snap = Snapshot
    /\ hist = NoHistory
    /\ calls = 0
    /\ InitAdapters

\* async for event in self._source.events(): the source yields an event.  An
\* event id that is yielded again carries the same event (ids are fresh
\* uuid4 values; only a replayed event repeats one).
Pull(e) ==
    /\ pc = "pull"
    /\ Len(pulled) < MaxPulled
    /\ \A k \in 1..Len(pulled) :
          pulled[k].event_id = e.event_id => pulled[k] = e
    /\ event' = e
    /\ pulled' = Append(pulled, e)
    /\ snap' = Snapshot
    /\ pc' = "exists"
    /\ log' = << Entry("pull", "ok", 0) >>
    /\ UNCHANGED << adapterVars, hist >>
    /\ UNCHANGED << calls, cfg, attempt, processed_count, error_count,
                    duplicate_count, store, states, published, faults >>

\* the source is exhausted: run() returns
SourceExhausted ==
    /\ pc = "pull"
    /\ pc' = "done"
    /\ UNCHANGED << adapterVars, hist >>
    /\ UNCHANGED << calls, cfg, event, attempt, processed_count, error_count,
                    duplicate_count, store, states, published, pulled,
                    faults, log, snap >>

\* the source raises: run() logs and re-raises (lines 76-80)
SourceFails ==
    /\ pc = "pull"
    /\ pc' = "failed"
    /\ UNCHANGED << adapterVars, hist >>
    /\ UNCHANGED << calls, cfg, event, attempt, processed_count, error_count,
                    duplicate_count, store, states, published, pulled,
                    faults, log, snap >>

\* The awaits of run() that suspend it: the pull, the retry wait and the
\* publish always; the store and projection calls only for the SQLite stores,
\* which hand the statement to a worker thread (asyncio.to_thread), while the
\* in-memory stores return without suspending.
CancelPoints ==
    {"pull", "sleep", "publish"}
        \cup (IF cfg.kind = "sqlite" THEN {"exists", "append", "project"} ELSE {})

\* a cancellation that the handler of line 60 catches as an error of the event
Cancel_Swallowed ==
    /\ pc \in CancelPoints
    /\ pc' = "pull"
    /\ error_count' = error_count + 1
    /\ UNCHANGED << adapterVars, hist >>
    /\ UNCHANGED << calls, cfg, event, attempt, processed_count,
                    duplicate_count, store, states, published, pulled,
                    faults, log, snap >>

\* CancelledError is delivered at the await run() is suspended in; it is not
\* an Exception, so neither handler of lines 60 and 104 catches it, and
\* lines 68-75 log the counters and re-raise it.  The call in flight is not
\* undone: it may or may not take effect.
Cancel ==
    /\ pc \in CancelPoints
    /\ pc' = "cancelled"
    /\ final_stats' = << [processed |-> processed_count,
                          error |-> error_count,
                          duplicate |-> duplicate_count] >>
    /\ store' \in (IF pc = "append" THEN {store, append(store, event)[1]}
                   ELSE {store})
    /\ states' \in (IF pc = "project" THEN {states, project(states, event)}
                    ELSE {states})
    /\ published' \in (IF pc = "publish"
                       THEN {published, Append(published, event)}
                       ELSE {published})
    /\ hist' = [hist EXCEPT
                   !.folded = IF states' # states
                              THEN Append(@, event.event_id) ELSE @,
                   !.handed = IF pc = "publish"
                              THEN Append(@, event.event_id) ELSE @]
    /\ UNCHANGED << dbVars, mqVars, runner, web, commander, source, input,
                    output >>
    /\ UNCHANGED << calls, cfg, event, attempt, processed_count, error_count,
                    duplicate_count, pulled, faults, log, snap >>

\* ExistsDuplicate, but the event is handled again as if its id were new
ExistsDuplicate_Reprocessed ==
    /\ pc = "exists"
    /\ event_exists(store, event.event_id)
    /\ cfg.max_retries > 0
    /\ attempt' = 0
    /\ pc' = "append"
    /\ Logged("event_exists", "duplicate", 0)
    /\ UNCHANGED << adapterVars, hist >>
    /\ UNCHANGED << calls, cfg, event, processed_count, error_count,
                    duplicate_count, store, states, published, pulled,
                    faults, snap >>

\* ExistsDuplicate, but the duplicate is also counted as an error
ExistsDuplicate_CountsError ==
    /\ pc = "exists"
    /\ event_exists(store, event.event_id)
    /\ duplicate_count' = duplicate_count + 1
    /\ error_count' = error_count + 1
    /\ pc' = "pull"
    /\ Logged("event_exists", "duplicate", 0)
    /\ UNCHANGED << adapterVars, hist >>
    /\ UNCHANGED << calls, cfg, event, attempt, processed_count,
                    store, states, published, pulled, faults, snap >>

\* lines 44-51: the id exists, the event is skipped
ExistsDuplicate ==
    /\ pc = "exists"
    /\ event_exists(store, event.event_id)
    /\ duplicate_count' = duplicate_count + 1
    /\ pc' = "pull"
    /\ Logged("event_exists", "duplicate", 0)
    /\ UNCHANGED << adapterVars, hist >>
    /\ UNCHANGED << calls, cfg, event, attempt, processed_count, error_count,
                    store, states, published, pulled, faults, snap >>

\* lines 44, 52-53, 86: the id is new; with max_retries <= 0 the loop of
\* _process_event_with_retry has no iteration and the call returns at once
ExistsNew ==
    /\ pc = "exists"
    /\ ~ event_exists(store, event.event_id)
    /\ Logged("event_exists", "new", 0)
    /\ IF cfg.max_retries > 0
       THEN /\ attempt' = 0
            /\ pc' = "append"
            /\ UNCHANGED processed_count
       ELSE /\ processed_count' = processed_count + 1
            /\ pc' = "pull"
            /\ UNCHANGED attempt
    /\ UNCHANGED << adapterVars, hist >>
    /\ UNCHANGED << calls, cfg, event, error_count, duplicate_count, store, states,
                    published, pulled, faults, snap >>

\* ExistsFails, but the event is dropped without being counted
ExistsFails_Uncounted ==
    /\ pc = "exists"
    /\ CanFail
    /\ faults' = faults + 1
    /\ pc' = "pull"
    /\ Logged("event_exists", "fail", 0)
    /\ UNCHANGED << adapterVars, hist >>
    /\ UNCHANGED << calls, cfg, event, attempt, processed_count, error_count,
                    duplicate_count, store, states, published, pulled, snap >>

\* lines 44, 60-67: event_exists raises
ExistsFails ==
    /\ pc = "exists"
    /\ CanFail
    /\ faults' = faults + 1
    /\ error_count' = error_count + 1
    /\ pc' = "pull"
    /\ Logged("event_exists", "fail", 0)
    /\ UNCHANGED << adapterVars, hist >>
    /\ UNCHANGED << calls, cfg, event, attempt, processed_count, duplicate_count,
                    store, states, published, pulled, snap >>

\* AttemptFailed, but with one attempt more than max_retries
AttemptFailed_OneMore ==
    IF attempt < cfg.max_retries
    THEN /\ pc' = "sleep"
         /\ UNCHANGED error_count
    ELSE /\ pc' = "pull"
         /\ error_count' = error_count + 1

\* AttemptFailed, but the last failure escapes run()
AttemptFailed_Escapes ==
    IF attempt < cfg.max_retries - 1
    THEN /\ pc' = "sleep"
         /\ UNCHANGED error_count
    ELSE /\ pc' = "failed"
         /\ error_count' = error_count + 1

\* lines 104-116 and 60-67: an attempt raised; sleep and retry, or give up,
\* count the error and go on with the next event
AttemptFailed ==
    IF attempt < cfg.max_retries - 1
    THEN /\ pc' = "sleep"
         /\ UNCHANGED error_count
    ELSE /\ pc' = "pull"
         /\ error_count' = error_count + 1

\* AppendOk, but the projection is left out
AppendOk_SkipsProject ==
    /\ pc = "append"
    /\ store' = append(store, event)[1]
    /\ pc' = "publish"
    /\ Logged("append", "ok", 0)
    /\ UNCHANGED << adapterVars, hist >>
    /\ UNCHANGED << calls, cfg, event, attempt, processed_count, error_count,
                    duplicate_count, states, published, pulled, faults, snap >>

\* line 88
AppendOk ==
    /\ pc = "append"
    /\ store' = append(store, event)[1]
    /\ pc' = IF cfg.projection THEN "project" ELSE "publish"
    /\ Logged("append", "ok", 0)
    /\ UNCHANGED << adapterVars, hist >>
    /\ UNCHANGED << calls, cfg, event, attempt, processed_count, error_count,
                    duplicate_count, states, published, pulled, faults, snap >>

\* AppendFails, but the failure is dropped and the attempt goes on
AppendFails_Ignored ==
    /\ pc = "append"
    /\ CanFail
    /\ faults' = faults + 1
    /\ pc' = IF cfg.projection THEN "project" ELSE "publish"
    /\ Logged("append", "fail", 0)
    /\ UNCHANGED << adapterVars, hist >>
    /\ UNCHANGED << calls, cfg, event, attempt, processed_count, error_count,
                    duplicate_count, store, states, published, pulled, snap >>

AppendFails ==
    /\ pc = "append"
    /\ CanFail
    /\ faults' = faults + 1
    /\ AttemptFailed
    /\ Logged("append", "fail", 0)
    /\ UNCHANGED << adapterVars, hist >>
    /\ UNCHANGED << calls, cfg, event, attempt, processed_count, duplicate_count,
                    store, states, published, pulled, snap >>

\* lines 89-90
ProjectOk ==
    /\ pc = "project"
    /\ states' = project(states, event)
    /\ hist' = [hist EXCEPT !.folded = Append(@, event.event_id)]
    /\ pc' = "publish"
    /\ Logged("project", "ok", 0)
    /\ UNCHANGED adapterVars
    /\ UNCHANGED << calls, cfg, event, attempt, processed_count, error_count,
                    duplicate_count, store, published, pulled, faults, snap >>

ProjectFails ==
    /\ pc = "project"
    /\ CanFail
    /\ faults' = faults + 1
    /\ AttemptFailed
    /\ Logged("project", "fail", 0)
    /\ UNCHANGED << adapterVars, hist >>
    /\ UNCHANGED << calls, cfg, event, attempt, processed_count, duplicate_count,
                    store, states, published, pulled, snap >>

\* lines 91-92, 98-103 and 53: published; the attempt returns and run()
\* counts the event
PublishOk ==
    /\ pc = "publish"
    /\ published' = Append(published, event)
    /\ processed_count' = processed_count + 1
    /\ pc' = "pull"
    /\ Logged("publish", "ok", 0)
    /\ hist' = [hist EXCEPT !.handed = Append(@, event.event_id)]
    /\ UNCHANGED adapterVars
    /\ UNCHANGED << calls, cfg, event, attempt, error_count, duplicate_count, store,
                    states, pulled, faults, snap >>

\* PublishFails, but the failure reaches the retry handler of line 104
PublishFails_Retries ==
    /\ pc = "publish"
    /\ CanFail
    /\ faults' = faults + 1
    /\ AttemptFailed
    /\ Logged("publish", "fail", 0)
    /\ UNCHANGED << adapterVars, hist >>
    /\ UNCHANGED << calls, cfg, event, attempt, processed_count, duplicate_count,
                    store, states, published, pulled, snap >>

\* lines 93-97, 98-103 and 53: publish raises, which is logged and dropped
PublishFails ==
    /\ pc = "publish"
    /\ CanFail
    /\ faults' = faults + 1
    /\ processed_count' = processed_count + 1
    /\ pc' = "pull"
    /\ Logged("publish", "fail", 0)
    /\ hist' = [hist EXCEPT !.handed = Append(@, event.event_id)]
    /\ UNCHANGED adapterVars
    /\ UNCHANGED << calls, cfg, event, attempt, error_count, duplicate_count, store,
                    states, published, pulled, snap >>

\* RetrySleep, but with a constant delay
RetrySleep_Constant ==
    /\ pc = "sleep"
    /\ attempt' = attempt + 1
    /\ pc' = "append"
    /\ Logged("sleep", "ok", cfg.retry_delay)
    /\ UNCHANGED << adapterVars, hist >>
    /\ UNCHANGED << calls, cfg, event, processed_count, error_count,
                    duplicate_count, store, states, published, pulled,
                    faults, snap >>

\* line 110: await asyncio.sleep(self._retry_delay * (attempt + 1)), then
\* the next iteration of the loop
RetrySleep ==
    /\ pc = "sleep"
    /\ attempt' = attempt + 1
    /\ pc' = "append"
    /\ Logged("sleep", "ok", cfg.retry_delay * (attempt + 1))
    /\ UNCHANGED << adapterVars, hist >>
    /\ UNCHANGED << calls, cfg, event, processed_count, error_count,
                    duplicate_count, store, states, published, pulled,
                    faults, snap >>

Next ==
    \/ \E e \in SourceEvents : Pull(e)
    \/ SourceExhausted
    \/ SourceFails
    \/ Cancel
    \/ ExistsDuplicate
    \/ ExistsNew
    \/ ExistsFails
    \/ AppendOk
    \/ AppendFails
    \/ ProjectOk
    \/ ProjectFails
    \/ PublishOk
    \/ PublishFails
    \/ RetrySleep

Spec == Init /\ [][Next]_vars

(***************************************************************************)
(* Properties of the ingestion service (Spec)                              *)
(***************************************************************************)
Last(q) == q[Len(q)]
LogOps(op) == { k \in 1..Len(log) : log[k].op = op }
LogHas(op, res) == \E k \in 1..Len(log) : log[k].op = op /\ log[k].res = res
FailedAttemptIdx ==
    { k \in 1..Len(log) : log[k].op \in {"append", "project"} /\ log[k].res = "fail" }
FailedAttempts == Cardinality(FailedAttemptIdx)
\* the number of the failed attempt logged at index k, counting from 1
AttemptNumber(k) == Cardinality({ j \in FailedAttemptIdx : j <= k })
Terminal == {"done", "failed", "cancelled"}
Idle == pc \in {"pull", "done"}
DistinctIds ==
    \A j, k \in 1..Len(pulled) :
        j # k => pulled[j].event_id # pulled[k].event_id
NodeEvents(n) == { k \in 1..Len(pulled) : pulled[k].node_id = n }

\* C1: when every pulled event had a distinct id and no call has failed, then
\* between events and at the end the event store holds exactly the pulled
\* events, each node's NodeState counts that node's events (and holds the
\* payload of a single telemetry event), and the publisher has received
\* exactly the pulled events, one call each.
C1_EndToEnd ==
    (Idle /\ faults = 0 /\ DistinctIds) =>
        /\ Len(StoredEvents(store)) = Len(pulled)
        /\ { StoredEvents(store)[k] : k \in 1..Len(store.events) }
             = { pulled[k] : k \in 1..Len(pulled) }
        /\ published = pulled
        /\ cfg.projection =>
             \A n \in Nodes :
                /\ NodeEvents(n) = {} => get_node(states, n) = None
                /\ NodeEvents(n) # {} =>
                     /\ get_node(states, n) # None
                     /\ get_node(states, n)[1].event_count
                          = Cardinality(NodeEvents(n))
                /\ \A k \in NodeEvents(n) :
                     (NodeEvents(n) = {k} /\ pulled[k].event_type = "telemetry")
                        => get_node(states, n)[1].last_telemetry
                             = Some(pulled[k].payload)

\* C1 for a service that makes at least one attempt per event
C1_EndToEndWithAttempts == cfg.max_retries >= 1 => C1_EndToEnd

C1_Witness ==
    /\ pc = "done" /\ faults = 0 /\ DistinctIds /\ Len(pulled) = 2
    /\ cfg.max_retries = DefaultMaxRetries /\ cfg.projection
    /\ pulled[1].node_id = pulled[2].node_id
    /\ Len(published) = 2

\* C2: an event that is published after k failed attempts had k < max_retries
\* failures, is in the store, and raised the processed counter by one and the
\* error counter not at all; an event whose last call failed in an attempt
\* has had max_retries failed attempts, raised the error counter by exactly
\* one and the processed counter not at all, is not in the store unless an
\* append succeeded, and the service is back at the pull of the next event.
C2_RetryThenSucceedOrDrop ==
    (pc = "pull" /\ log # << >>) =>
        /\ Last(log).op = "publish" =>
             /\ FailedAttempts = attempt
             /\ FailedAttempts < cfg.max_retries
             /\ event_exists(store, event.event_id)
             /\ processed_count = snap.processed + 1
             /\ error_count = snap.error
        /\ Last(log).op \in {"append", "project"} =>
             /\ Last(log).res = "fail"
             /\ FailedAttempts = cfg.max_retries
             /\ error_count = snap.error + 1
             /\ processed_count = snap.processed
             /\ published = snap.published
             /\ ~ LogHas("append", "ok") => store = snap.store

C2_Witness ==
    /\ pc = "pull" /\ cfg.max_retries = 3
    /\ FailedAttempts = 2
    /\ log[3] = Entry("append", "fail", 0)
    /\ log[5] = Entry("append", "fail", 0)
    /\ log[7] = Entry("append", "ok", 0)
    /\ Last(log) = Entry("publish", "ok", 0)
    /\ event_exists(store, event.event_id)

\* reachable as well: all three attempts fail, the event is dropped and the
\* next event is processed
C2_WitnessDropped ==
    /\ cfg.max_retries = 3 /\ faults = 3 /\ error_count = 1
    /\ Len(pulled) = 2 /\ processed_count = 1
    /\ ~ event_exists(store, pulled[1].event_id)
    /\ event_exists(store, pulled[2].event_id)

\* C3: the event is skipped (counted as a duplicate) exactly when the store
\* has its id; a skipped event causes no append, projection or publish call,
\* leaves both stores and the publisher as they were, raises the duplicate
\* counter by one and leaves the processed and error counters alone.
C3_DuplicateSkipped ==
    /\ LogHas("event_exists", "new") => ~ event_exists(snap.store, event.event_id)
    /\ LogHas("event_exists", "duplicate") =>
         /\ event_exists(snap.store, event.event_id)
         /\ Len(log) = 2
         /\ pc \in {"pull"} \cup Terminal
         /\ store = snap.store /\ states = snap.states
         /\ published = snap.published
         /\ duplicate_count = snap.duplicate + 1
         /\ processed_count = snap.processed
         /\ error_count = snap.error

C3_Witness ==
    /\ pc = "pull" /\ LogHas("event_exists", "duplicate")
    /\ duplicate_count = 1 /\ processed_count = 1 /\ Len(pulled) = 2

\* C5: after a publish call that failed, the service is back at the pull with
\* the event counted as processed and not as an error; the event is stored and
\* folded into state once, nothing was delivered, publish was called once for
\* the event and no call followed it.
C5_PublishFailureAbsorbed ==
    LogHas("publish", "fail") =>
        /\ Last(log) = Entry("publish", "fail", 0)
        /\ Cardinality(LogOps("publish")) = 1
        /\ pc \in {"pull"} \cup Terminal
        /\ processed_count = snap.processed + 1
        /\ error_count = snap.error
        /\ store = append(snap.store, event)[1]
        /\ states = IF cfg.projection THEN project(snap.states, event)
                    ELSE snap.states
        /\ published = snap.published

C5_Witness ==
    /\ pc = "pull" /\ cfg.projection /\ log # << >>
    /\ Last(log) = Entry("publish", "fail", 0)
    /\ LogHas("project", "ok")
    /\ processed_count = 1 /\ error_count = 0

\* the calls that may follow a call within one event
Follows(a, b) ==
    \/ a.op = "pull" /\ b.op = "event_exists"
    \/ a = Entry("event_exists", "new", 0) /\ b.op = "append"
    \/ a = Entry("append", "ok", 0)
         /\ b.op = (IF cfg.projection THEN "project" ELSE "publish")
    \/ a = Entry("project", "ok", 0) /\ b.op = "publish"
    \/ a.op \in {"append", "project"} /\ a.res = "fail" /\ b.op = "sleep"
    \/ a.op = "sleep" /\ b.op = "append"

\* C6: while an event is being handled every event pulled before it has reached
\* its outcome (processed, error or duplicate), so no call for event N+1 is
\* made before the last call for event N has completed; and the calls for one
\* event are made in the order duplicate check, then per attempt append,
\* project, publish, with a wait between a failed attempt and the next.
C6_InOrder ==
    /\ pc \in {"exists", "append", "project", "publish", "sleep"} =>
         processed_count + error_count + duplicate_count = Len(pulled) - 1
    /\ pc = "pull" =>
         processed_count + error_count + duplicate_count = Len(pulled)
    /\ \A k \in 1..(Len(log) - 1) : Follows(log[k], log[k + 1])
    /\ \A k \in 1..Len(log) : log[k].op = "pull" <=> k = 1

C6_Witness ==
    /\ pc = "publish" /\ Len(pulled) = 2 /\ cfg.projection
    /\ processed_count = 1
    /\ Len(log) = 7
    /\ log[4] = Entry("project", "fail", 0)
    /\ log[7] = Entry("project", "ok", 0)

\* C7: a step in which a call for an event fails leads to the retry wait or
\* back to the pull of the next event, and run() ends only from the pull
\* (source exhausted or failed) or by cancellation.
C7_FailureContained ==
    [][ /\ faults' = faults + 1 => pc' \in {"sleep", "pull"}
        /\ (pc' \in Terminal /\ pc \notin Terminal) =>
              (pc = "pull" \/ pc' = "cancelled") ]_vars

C7_Witness ==
    /\ pc = "done" /\ cfg.max_retries = 2 /\ Len(pulled) = 2
    /\ faults = 2 /\ error_count = 1 /\ processed_count = 1
    /\ ~ event_exists(store, pulled[1].event_id)
    /\ published = << pulled[2] >>

\* C8 as claimed: every failed attempt k is followed by a wait of
\* retry_delay * k
C8_WaitAfterEveryFailedAttempt ==
    \A k \in FailedAttemptIdx :
        IF k = Len(log) THEN pc \in {"sleep", "cancelled"}
        ELSE log[k + 1] = Entry("sleep", "ok", cfg.retry_delay * AttemptNumber(k))

\* C8 (amended): at most max_retries attempts are made per event; failed
\* attempt k < max_retries is followed by a wait of retry_delay * k, and
\* failed attempt max_retries is followed by no wait: the event is given up.
C8_LinearBackoff ==
    /\ Cardinality(LogOps("append")) <= cfg.max_retries
    /\ \A k \in FailedAttemptIdx :
          IF AttemptNumber(k) < cfg.max_retries
          THEN IF k = Len(log) THEN pc \in {"sleep", "cancelled"}
               ELSE log[k + 1]
                      = Entry("sleep", "ok", cfg.retry_delay * AttemptNumber(k))
          ELSE /\ AttemptNumber(k) = cfg.max_retries
               /\ k = Len(log)
               /\ pc # "sleep"

C8_Witness ==
    /\ cfg.max_retries = DefaultMaxRetries
    /\ cfg.retry_delay = DefaultRetryDelay
    /\ pc = "pull" /\ FailedAttempts = 3
    /\ Cardinality(LogOps("sleep")) = 2
    /\ log[4] = Entry("sleep", "ok", 1)
    /\ \E k \in LogOps("sleep") : log[k].arg = 2
    /\ Last(log).res = "fail"

(***************************************************************************)
(* SpecStore: direct calls on an event store of either kind.  log holds the*)
(* last call and its result, snap the store before it.                     *)
(***************************************************************************)
\* Events handed to append: two events with one id may differ in content.
StoreEvents ==
    { MeshEvent(i, "node-alpha", ty, ts, PayloadFor(ty)) :
        << i, ty, ts >> \in EventIds \X SourceTypes \X Times }

\* the service and its stores as SpecStore, SpecProjection and SpecConn leave
\* them: not running
InitDirect ==
    /\ cfg \in { [max_retries |-> DefaultMaxRetries,
                  retry_delay |-> DefaultRetryDelay, projection |-> FALSE,
                  kind |-> k] : k \in StoreKinds }
    /\ pc = "direct"
    /\ event = NoEvent
    /\ attempt = 0
    /\ processed_count = 0 /\ error_count = 0 /\ duplicate_count = 0
    /\ store = NewEventStore(cfg.kind)
    /\ states = NewStateStore(cfg.kind)
    /\ published = << >>
    /\ pulled = << >>
    /\ faults = 0
    /\ log = << >>
    /\ snap = Snapshot
    /\ hist = NoHistory
    /\ calls = 0

InitStore ==
    /\ InitDirect
    /\ InitAdapters

\* await store.append(e)
StoreAppend(e) ==
    /\ calls < MaxStoreOps
    /\ calls' = calls + 1
    /\ store' = append(store, e)[1]
    /\ log' = << [op |-> "append", res |-> append(store, e)[2], arg |-> e] >>
    /\ snap' = Snapshot
    /\ UNCHANGED << adapterVars, hist >>
    /\ UNCHANGED << cfg, pc, event, attempt, processed_count, error_count,
                    duplicate_count, states, published, pulled, faults >>

\* await store.append(e) raises sqlite3.Error: nothing is committed
StoreAppendFails(e) ==
    /\ calls < MaxStoreOps
    /\ store.kind = "sqlite"
    /\ calls' = calls + 1
    /\ faults' = faults + 1
    /\ log' = << [op |-> "append", res |-> "error", arg |-> e] >>
    /\ snap' = Snapshot
    /\ UNCHANGED << adapterVars, hist >>
    /\ UNCHANGED << cfg, pc, event, attempt, processed_count, error_count,
                    duplicate_count, store, states, published, pulled >>

\* await store.event_exists(id)
StoreEventExists(id) ==
    /\ calls < MaxStoreOps
    /\ calls' = calls + 1
    /\ log' = << [op |-> "event_exists", res |-> event_exists(store, id),
                  arg |-> id] >>
    /\ snap' = Snapshot
    /\ UNCHANGED << adapterVars, hist >>
    /\ UNCHANGED << cfg, pc, event, attempt, processed_count, error_count,
                    duplicate_count, store, states, published, pulled,
                    faults >>

\* The bounds of a replay window: absent, or a time.
Bounds == {None} \cup { Some(t) : t \in Times }

\* [e async for e in store.replay(since, until)]
StoreReplay(since, until) ==
    /\ calls < MaxStoreOps
    /\ calls' = calls + 1
    /\ \E r \in replay(store, since, until) :
          log' = << [op |-> "replay", res |-> r, arg |-> << since, until >>] >>
    /\ snap' = Snapshot
    /\ UNCHANGED << adapterVars, hist >>
    /\ UNCHANGED << cfg, pc, event, attempt, processed_count, error_count,
                    duplicate_count, store, states, published, pulled,
                    faults >>

NextStore ==
    \/ \E e \in StoreEvents : StoreAppend(e)
    \/ \E e \in StoreEvents : StoreAppendFails(e)
    \/ \E id \in EventIds : StoreEventExists(id)
    \/ \E since, until \in Bounds : StoreReplay(since, until)

SpecStore == InitStore /\ [][NextStore]_vars

StoredWithId(s, id) ==
    { k \in 1..Len(s.events) : StoredEvents(s)[k].event_id = id }
LastCall == log[1]
Appended == log # << >> /\ LastCall.op = "append" /\ LastCall.res # "error"

\* C4: in either event store no id is stored twice; an append of an id that is
\* already stored reports "not inserted" (in-memory) or nothing (SQLite) and
\* leaves the store, and so the record stored first, as it was; an append of a
\* new id adds that event after the others and leaves them alone; and
\* event_exists of an id, once true, stays true over every later call.
C4_AppendIdempotent ==
    /\ \A id \in EventIds : Cardinality(StoredWithId(store, id)) <= 1
    /\ \A id \in EventIds :
          event_exists(store, id) <=> StoredWithId(store, id) # {}
    /\ \A id \in EventIds :
          event_exists(snap.store, id) => event_exists(store, id)
    /\ Appended =>
          IF event_exists(snap.store, LastCall.arg.event_id)
          THEN /\ store = snap.store
               /\ LastCall.res \in {Some(FALSE), None}
          ELSE /\ StoredEvents(store)
                    = Append(StoredEvents(snap.store), LastCall.arg)
               /\ event_exists(store, LastCall.arg.event_id)
               /\ LastCall.res \in {Some(TRUE), None}
    /\ (log # << >> /\ ~ Appended) => store = snap.store

C4_Witness ==
    /\ Appended /\ store.kind = "sqlite"
    /\ event_exists(snap.store, LastCall.arg.event_id)
    /\ \E k \in StoredWithId(store, LastCall.arg.event_id) :
          StoredEvents(store)[k] # LastCall.arg
    /\ Len(store.events) = 1

(***************************************************************************)
(* SpecProjection: direct calls of StateProjection.project on a state store*)
(* of either kind.  log holds the last call, with the NodeState handed to  *)
(* upsert_node as its result, snap the state store before it.              *)
(***************************************************************************)
\* The payloads translate_packet decodes for a type: the decoded fields, or
\* {raw: ...} when the packet does not decode (never an empty payload).
PayloadsOf(ty) ==
    IF ty = "node_info" THEN {RawPayload} ELSE {PayloadFor(ty), RawPayload}

ProjectionEvents ==
    UNION { { MeshEvent(1, n, ty, ts, p) : p \in PayloadsOf(ty) } :
            << n, ty, ts >> \in Nodes \X EventTypes \X Times }

\* await projection.project(e)
Project(e) ==
    /\ calls < MaxProjections
    /\ calls' = calls + 1
    /\ states' = project(states, e)
    /\ log' = << [op |-> "project", res |-> projected_state(states, e),
                  arg |-> e] >>
    /\ snap' = Snapshot
    /\ UNCHANGED << adapterVars, hist >>
    /\ UNCHANGED << cfg, pc, event, attempt, processed_count, error_count,
                    duplicate_count, store, published, pulled, faults >>

\* await state_store.delete_node(n)
DeleteNode(n) ==
    /\ calls < MaxProjections
    /\ calls' = calls + 1
    /\ states' = delete_node(states, n)
    /\ log' = << [op |-> "delete_node", res |-> None, arg |-> n] >>
    /\ snap' = Snapshot
    /\ UNCHANGED << adapterVars, hist >>
    /\ UNCHANGED << cfg, pc, event, attempt, processed_count, error_count,
                    duplicate_count, store, published, pulled, faults >>

\* NodeStates a caller hands to upsert_node directly: any times and count,
\* with no snapshot field or all three populated.
UpsertStates ==
    { NodeState(n, ls, fs, c, None, None, None) :
        << n, ls, fs, c >> \in Nodes \X Times \X Times \X {1, 7} }
    \cup
    { NodeState(n, ls, fs, c, Some(TelemetryPayload), Some(PositionPayload),
                Some("ping")) :
        << n, ls, fs, c >> \in Nodes \X Times \X Times \X {1, 7} }

\* await state_store.upsert_node(st)
UpsertNode(st) ==
    /\ calls < MaxProjections
    /\ calls' = calls + 1
    /\ states' = upsert_node(states, st)
    /\ log' = << [op |-> "upsert_node", res |-> None, arg |-> st] >>
    /\ snap' = Snapshot
    /\ UNCHANGED << adapterVars, hist >>
    /\ UNCHANGED << cfg, pc, event, attempt, processed_count, error_count,
                    duplicate_count, store, published, pulled, faults >>

NextProjection ==
    \/ \E e \in ProjectionEvents : Project(e)
    \/ \E n \in Nodes : DeleteNode(n)
    \/ \E st \in UpsertStates : UpsertNode(st)

SpecProjection == InitStore /\ [][NextProjection]_vars

Projected == log # << >> /\ LastCall.op = "project"
Before == get_node(snap.states, LastCall.arg.node_id)
After == get_node(states, LastCall.arg.node_id)

\* the part of C9 and its amendment that does not depend on last_text
CreatedBase(e, r) ==
    /\ r.node_id = e.node_id
    /\ r.event_count = 1
    /\ r.first_seen = e.timestamp /\ r.last_seen = e.timestamp
    /\ r.last_telemetry
         = (IF e.event_type = "telemetry" THEN Some(e.payload) ELSE None)
    /\ r.last_position
         = (IF e.event_type = "position" THEN Some(e.payload) ELSE None)
    /\ e.event_type # "text" => r.last_text = None

\* C9 as claimed: projecting an event for a node without state creates a
\* NodeState with event_count 1, first_seen = last_seen = the event's
\* timestamp, and exactly the snapshot field of the event's type populated:
\* for a text event last_text holds the payload's text.
C9_CreateExactlyOneField ==
    (Projected /\ Before = None) =>
        /\ CreatedBase(LastCall.arg, LastCall.res)
        /\ LastCall.arg.event_type = "text" =>
             /\ LastCall.res.last_text # None
             /\ LastCall.res.last_text = DictGet(LastCall.arg.payload, "text")

\* C9 (amended): as claimed, but for a text event last_text is the payload's
\* "text" entry, and is absent when the payload has no such entry.
C9_CreateState ==
    (Projected /\ Before = None) =>
        /\ CreatedBase(LastCall.arg, LastCall.res)
        /\ LastCall.arg.event_type = "text" =>
             LastCall.res.last_text = DictGet(LastCall.arg.payload, "text")
        /\ (LastCall.arg.event_type = "text"
              /\ LastCall.arg.payload["text"] = Absent) =>
             LastCall.res.last_text = None
        /\ states.kind = "memory" => After = Some(LastCall.res)

C9_Witness ==
    /\ Projected /\ Before = None /\ calls = 2
    /\ snap.states.rows # NewStateStore(cfg.kind).rows
    /\ LastCall.arg.event_type = "text"
    /\ LastCall.arg.payload = RawPayload
    /\ LastCall.res.last_text = None

\* C10: projecting an event for a node that has state raises event_count by
\* exactly one, sets last_seen to the event's timestamp even when that is
\* earlier, overwrites the snapshot field of the event's type only, and
\* leaves the other snapshot fields, first_seen and every other node's state
\* as they were.
C10_UpdateState ==
    (Projected /\ Before # None) =>
        LET e == LastCall.arg
            r == LastCall.res
            old == Before[1]
            new == After[1]
        IN  /\ After # None
            /\ r.event_count = old.event_count + 1
            /\ new.event_count = old.event_count + 1
            /\ r.last_seen = e.timestamp /\ new.last_seen = e.timestamp
            /\ r.first_seen = old.first_seen /\ new.first_seen = old.first_seen
            /\ IF e.event_type = "telemetry"
               THEN r.last_telemetry = Some(e.payload)
               ELSE /\ r.last_telemetry = old.last_telemetry
                    /\ new.last_telemetry = old.last_telemetry
            /\ IF e.event_type = "position"
               THEN r.last_position = Some(e.payload)
               ELSE /\ r.last_position = old.last_position
                    /\ new.last_position = old.last_position
            /\ IF e.event_type = "text"
               THEN r.last_text = DictGet(e.payload, "text")
               ELSE /\ r.last_text = old.last_text
                    /\ new.last_text = old.last_text
            /\ \A m \in Nodes \ {e.node_id} :
                  states.rows[m] = snap.states.rows[m]

C10_Witness ==
    /\ Projected /\ Before # None /\ states.kind = "sqlite"
    /\ LastCall.arg.event_type = "position"
    /\ LastCall.arg.timestamp < Before[1].last_seen
    /\ Before[1].last_telemetry = Some(RawPayload)
    /\ After[1].last_telemetry = Some(RawPayload)
    /\ After[1].last_position = Some(PositionPayload)
    /\ After[1].event_count = 2


(***************************************************************************)
(* SqliteStateStore.upsert_node on an existing row                         *)
(***************************************************************************)
Upserted == log # << >> /\ LastCall.op = "upsert_node"

\* C11: in the SQLite state store, upsert_node on a node id that has a row
\* overwrites last_seen, event_count, last_telemetry_json,
\* last_position_json and last_text with the given values and leaves
\* first_seen alone; an upsert or a projection on a node without a row
\* stores the given first_seen; so every upsert and projection that is not
\* preceded by a delete_node keeps the first_seen get_node returned before.
C11_UpsertKeepsFirstSeen ==
    states.kind = "sqlite" =>
      /\ Upserted =>
            LET st == LastCall.arg
                old == snap.states.rows[st.node_id]
                new == states.rows[st.node_id]
            IN  /\ new # None
                /\ new[1].last_seen = StateRow(st).last_seen
                /\ new[1].event_count = st.event_count
                /\ new[1].last_telemetry_json = StateRow(st).last_telemetry_json
                /\ new[1].last_position_json = StateRow(st).last_position_json
                /\ new[1].last_text = st.last_text
                /\ get_node(states, st.node_id)[1].last_seen = st.last_seen
                /\ get_node(states, st.node_id)[1].last_telemetry
                      = st.last_telemetry
                /\ new[1].first_seen
                      = (IF old = None THEN StateRow(st).first_seen
                         ELSE old[1].first_seen)
                /\ \A m \in Nodes \ {st.node_id} :
                      states.rows[m] = snap.states.rows[m]
      /\ (Upserted \/ Projected) =>
            LET n == LastCall.arg.node_id
                given == IF Upserted THEN LastCall.arg.first_seen
                         ELSE LastCall.arg.timestamp
            IN  get_node(states, n)[1].first_seen
                  = (IF get_node(snap.states, n) = None THEN given
                     ELSE get_node(snap.states, n)[1].first_seen)

C11_Witness ==
    /\ states.kind = "sqlite" /\ Upserted /\ calls = 2
    /\ Before # None
    /\ LastCall.arg.first_seen # Before[1].first_seen
    /\ LastCall.arg.last_seen # Before[1].last_seen
    /\ LastCall.arg.event_count = 7
    /\ Before[1].last_telemetry = None
    /\ After[1].last_telemetry = Some(TelemetryPayload)
    /\ After[1].first_seen = Before[1].first_seen
    /\ After[1].event_count = 7


(***************************************************************************)
(* EventStore.replay                                                       *)
(***************************************************************************)
Replayed == log # << >> /\ LastCall.op = "replay"
InWindow(e, since, until) ==
    /\ (since = None \/ e.timestamp >= since[1])
    /\ (until = None \/ e.timestamp <= until[1])

\* C12: for either event store and every since and until, each possibly
\* absent, replay(since, until) yields exactly the stored events whose
\* timestamp is inside the window, bounds included, each of them once.
C12_ReplayWindow ==
    Replayed =>
        LET since == LastCall.arg[1]
            until == LastCall.arg[2]
            all == StoredEvents(store)
            got == LastCall.res
        IN  /\ \A k \in 1..Len(got) :
                  /\ \E j \in 1..Len(all) : all[j] = got[k]
                  /\ InWindow(got[k], since, until)
            /\ \A j \in 1..Len(all) :
                  Cardinality({ k \in 1..Len(got) : got[k] = all[j] })
                    = (IF InWindow(all[j], since, until) THEN 1 ELSE 0)
            /\ store = snap.store

\* events at T1 < T2 (T2 with a fraction of a second): since = T2 yields the
\* one at T2 and no other
C12_Witness ==
    /\ Replayed /\ store.kind = "sqlite"
    /\ Len(store.events) = 2
    /\ LastCall.arg = << Some(2), None >>
    /\ StoredEvents(store)[1].timestamp = 1
    /\ StoredEvents(store)[2].timestamp = 2
    /\ LastCall.res = << StoredEvents(store)[2] >>

C12_WitnessUntil ==
    /\ Replayed /\ store.kind = "memory"
    /\ Len(store.events) = 2
    /\ LastCall.arg = << None, Some(1) >>
    /\ StoredEvents(store)[1].timestamp = 2
    /\ StoredEvents(store)[2].timestamp = 1
    /\ LastCall.res = << StoredEvents(store)[2] >>

Ascending(q) ==
    \A i, j \in 1..Len(q) : i < j => q[i].timestamp <= q[j].timestamp

\* C13: for either event store, replay yields the stored events in ascending
\* timestamp order, whatever the order in which they were appended.
C13_ReplayAscending ==
    Replayed => Ascending(LastCall.res)

\* ... which holds of the SQLite store (ORDER BY timestamp ASC)
C13_ReplayAscendingSqlite ==
    (Replayed /\ store.kind = "sqlite") => Ascending(LastCall.res)

C13_WitnessSqlite ==
    /\ Replayed /\ store.kind = "sqlite"
    /\ Len(LastCall.res) = 2
    /\ StoredEvents(store)[1].timestamp > StoredEvents(store)[2].timestamp
    /\ LastCall.res[1].timestamp < LastCall.res[2].timestamp


(***************************************************************************)
(* SpecConn: concurrent callers of one SQLite store instance, each on its  *)
(* own event loop or sharing one.                                          *)
(***************************************************************************)
InitConn ==
    /\ InitDirect /\ cfg.kind = "sqlite"
    /\ \E class \in StoreClasses : NewSqliteStore(class)
    /\ task \in { f \in [Tasks -> { IdleTask(l) : l \in Loops }] :
                    f[1].loop = 1 }
    /\ NewPublisher(DefaultMqttMaxRetries, DefaultInitialRetryDelay)
    /\ InitAux

\* SqliteStateStore._ensure_connection, lines 36-39: the lock is created on
\* first use and again whenever the caller runs on another event loop than
\* the one the lock was created on.  Yields << _lock, _lock_loop, locks >>.
EnsureLock(t) ==
    IF store_class = "SqliteStateStore"
          /\ (db_lock = 0 \/ db_lock_loop # task[t].loop)
    THEN << Len(lock_holder) + 1, task[t].loop, Append(lock_holder, 0) >>
    ELSE << db_lock, db_lock_loop, lock_holder >>

\* "async with self._lock": task t takes lock l if it is free and starts its
\* statement on a worker thread, else waits for l; __aenter__ is done once
\* the connection is there.
EnterLock(t, op, l, holders) ==
    IF op = "__aenter__"
    THEN /\ task' = [task EXCEPT ![t].pc = "idle", ![t].op = "",
                                 ![t].last = "entered"]
         /\ lock_holder' = holders
    ELSE IF holders[l] = 0
    THEN /\ task' = [task EXCEPT ![t].pc = "in_db", ![t].op = OpKind(op),
                                 ![t].lock = l]
         /\ lock_holder' = [holders EXCEPT ![l] = t]
    ELSE /\ task' = [task EXCEPT ![t].pc = "waiting", ![t].op = OpKind(op),
                                 ![t].lock = l]
         /\ lock_holder' = holders

\* A task calls __aenter__ or a database method: _ensure_connection up to
\* its first await.  Without a connection (and not closed) the task starts
\* _connect and is suspended in asyncio.to_thread(_init); else it goes on to
\* the lock without suspending.
Call(t, op) ==
    /\ task[t].pc = "idle"
    /\ calls < MaxConnCalls
    /\ calls' = calls + 1
    /\ db_lock' = EnsureLock(t)[1]
    /\ db_lock_loop' = EnsureLock(t)[2]
    /\ IF db_conn = 0 /\ ~ db_closed
       THEN /\ task' = [task EXCEPT ![t].pc = "connecting",
                                    ![t].op = OpKind(op)]
            /\ lock_holder' = EnsureLock(t)[3]
       ELSE EnterLock(t, op, EnsureLock(t)[1], EnsureLock(t)[3])
    /\ UNCHANGED << store_class, db_conn, db_closed, connections >>
    /\ UNCHANGED << directVars, mqVars, auxVars >>

\* _connect, lines 72-75: _init has opened a connection and set the schema
\* up; it becomes _conn, and the task goes on to the lock that _lock is now
Connected(t) ==
    /\ task[t].pc = "connecting"
    /\ connections' = Append(connections, 0)
    /\ db_conn' = Len(connections) + 1
    /\ EnterLock(t, task[t].op, db_lock, lock_holder)
    /\ UNCHANGED << store_class, db_lock, db_lock_loop, db_closed, calls >>
    /\ UNCHANGED << directVars, mqVars, auxVars >>

\* the lock a task waits for has been released: the task takes it
Granted(t) ==
    /\ task[t].pc = "waiting"
    /\ lock_holder[task[t].lock] = 0
    /\ lock_holder' = [lock_holder EXCEPT ![task[t].lock] = t]
    /\ task' = [task EXCEPT ![t].pc = "in_db"]
    /\ UNCHANGED << store_class, db_conn, db_lock, db_lock_loop, db_closed,
                    connections, calls >>
    /\ UNCHANGED << directVars, mqVars, auxVars >>

\* the statement has run on the worker thread; leaving "async with" releases
\* the lock.  Without a connection (a closed store) the statement fails.
DbDone(t) ==
    /\ task[t].pc = "in_db"
    /\ lock_holder' = [lock_holder EXCEPT ![task[t].lock] = 0]
    /\ task' = [task EXCEPT ![t].pc = "idle", ![t].op = "", ![t].lock = 0,
                            ![t].last = IF db_conn = 0 THEN "error" ELSE "ok"]
    /\ UNCHANGED << store_class, db_conn, db_lock, db_lock_loop, db_closed,
                    connections, calls >>
    /\ UNCHANGED << directVars, mqVars, auxVars >>

\* a close() without the test of lines 80 (77)
Close_Unguarded(t) ==
    /\ task[t].pc = "idle"
    /\ calls < MaxConnCalls
    /\ calls' = calls + 1
    /\ task' = [task EXCEPT ![t].pc = "closing", ![t].op = "close",
                            ![t].conn = db_conn]
    /\ UNCHANGED << store_class, db_conn, db_lock, db_lock_loop, db_closed,
                    connections, lock_holder >>
    /\ UNCHANGED << directVars, mqVars, auxVars >>

\* close(): with a connection and not closed, the task hands _conn.close to
\* a worker thread and is suspended; else close() returns at once
Close(t) ==
    /\ task[t].pc = "idle"
    /\ calls < MaxConnCalls
    /\ calls' = calls + 1
    /\ IF db_conn # 0 /\ ~ db_closed
       THEN task' = [task EXCEPT ![t].pc = "closing", ![t].op = "close",
                                 ![t].conn = db_conn]
       ELSE task' = [task EXCEPT
                        ![t].last = IF db_closed THEN "noop_closed"
                                    ELSE "noop_unopened"]
    /\ UNCHANGED << store_class, db_conn, db_lock, db_lock_loop, db_closed,
                    connections, lock_holder >>
    /\ UNCHANGED << directVars, mqVars, auxVars >>

\* close(), lines 81-83: the connection has been closed
CloseDone(t) ==
    /\ task[t].pc = "closing"
    /\ connections' = [connections EXCEPT ![task[t].conn] = @ + 1]
    /\ db_conn' = 0
    /\ db_closed' = TRUE
    /\ task' = [task EXCEPT ![t].pc = "idle", ![t].op = "", ![t].conn = 0,
                            ![t].last = "closed"]
    /\ UNCHANGED << store_class, db_lock, db_lock_loop, lock_holder, calls >>
    /\ UNCHANGED << directVars, mqVars, auxVars >>

NextConn ==
    \/ \E t \in Tasks :
         \E op \in DbOps(store_class) \cup {"__aenter__"} : Call(t, op)
    \/ \E t \in Tasks : Connected(t)
    \/ \E t \in Tasks : Granted(t)
    \/ \E t \in Tasks : DbDone(t)
    \/ \E t \in Tasks : Close(t)
    \/ \E t \in Tasks : CloseDone(t)

SpecConn == InitConn /\ [][NextConn]_vars


InDb == { t \in Tasks : task[t].pc = "in_db" }
OneLoop == \A t, u \in Tasks : task[t].loop = task[u].loop

\* C14: on one SQLite store instance, for any interleaving of concurrent
\* callers in the process, at most one database operation runs on the
\* connection at any time.
C14_Serialized ==
    Cardinality(InDb) <= 1

\* ... which holds when all callers run on one event loop: the lock is held by
\* the one task whose statement is in flight, and by no task otherwise
C14_SerializedOnOneLoop ==
    OneLoop =>
        /\ Cardinality(InDb) <= 1
        /\ \A t \in InDb : lock_holder[task[t].lock] = t /\ task[t].lock = db_lock
        /\ \A l \in 1..Len(lock_holder) :
              lock_holder[l] # 0 => lock_holder[l] \in InDb

C14_WitnessOneLoop ==
    /\ OneLoop /\ store_class = "SqliteStateStore"
    /\ task[1].pc = "in_db" /\ task[2].pc = "waiting"
    /\ task[2].lock = task[1].lock

\* C15: a SQLite store instance opens its connection once: for any
\* interleaving of concurrent callers making first use of a fresh instance no
\* second connection is ever opened.
C15_OneConnection ==
    Len(connections) <= 1

\* C16: close() of a SQLite store is idempotent: on a store that has been
\* closed, a further close() returns at once without an error, closes no
\* connection again and leaves the store as the first close left it (no
\* connection, closed).
C16_CloseIdempotent ==
    [][ \A t \in Tasks :
          (db_closed /\ Close(t)) =>
              /\ UNCHANGED << db_conn, db_closed, connections, db_lock,
                              db_lock_loop, lock_holder >>
              /\ task'[t].pc = "idle"
              /\ task'[t].last = "noop_closed" ]_vars

C16_Witness ==
    /\ db_closed /\ db_conn = 0
    /\ connections = << 1 >>
    /\ task[1].last = "noop_closed"
    /\ task[2].last = "noop_closed"
    /\ calls = 4


(***************************************************************************)
(* SpecMqtt: tasks of one event loop that call __aenter__ and publish of   *)
(* one MqttEventPublisher, and the callbacks of its client.                *)
(***************************************************************************)
MaxMqCalls == 2
MaxSendFaults == 1

\* the publishers whose connect sequence is explored: the defaults; a delay
\* that reaches the cap; one attempt; none
ConnectConfigs ==
    { [max_retries |-> DefaultMqttMaxRetries,
       initial_retry_delay |-> DefaultInitialRetryDelay],
      [max_retries |-> 3, initial_retry_delay |-> 20],
      [max_retries |-> 1, initial_retry_delay |-> DefaultInitialRetryDelay],
      [max_retries |-> 0, initial_retry_delay |-> DefaultInitialRetryDelay] }

\* the publishers whose publish is explored: two attempts; none
PublisherConfigs ==
    { [max_retries |-> 2, initial_retry_delay |-> DefaultInitialRetryDelay],
      [max_retries |-> 0, initial_retry_delay |-> DefaultInitialRetryDelay] }

\* the event of the k-th call of the publisher: every call has a new one
PublishEvent(k) ==
    IF k % 2 = 1 THEN MeshEvent(k, "node-alpha", "telemetry", 1, TelemetryPayload)
    ELSE MeshEvent(k, "node-bravo", "text", 1, TextPayload)

\* lines 112-118
Topics(e) ==
    << << TopicPrefix, "all" >>,
       << TopicPrefix, "type", e.event_type >>,
       << TopicPrefix, "node", e.node_id >>,
       << TopicPrefix, "node", e.node_id, "type", e.event_type >> >>

Min(a, b) == IF a < b THEN a ELSE b

InitMqtt ==
    /\ InitDirect /\ cfg.kind = "sqlite"
    /\ NewSqliteStore("SqliteEventStore")
    /\ task = [t \in Tasks |-> IdleTask(1)]
    /\ \E c \in PublisherConfigs :
          NewPublisher(c.max_retries, c.initial_retry_delay)
    /\ InitAux

InitMqttConnect ==
    /\ InitDirect /\ cfg.kind = "sqlite"
    /\ NewSqliteStore("SqliteEventStore")
    /\ task = [t \in Tasks |-> IdleTask(1)]
    /\ \E c \in ConnectConfigs :
          NewPublisher(c.max_retries, c.initial_retry_delay)
    /\ InitAux

\* the call is over: what is kept of it is its number, how it ended and the
\* attempts and waits of its connect sequence
Ended(rec, how) ==
    [MqIdle EXCEPT !.call = rec.call, !.op = rec.op, !.tries = rec.tries,
                   !.waits = rec.waits, !.reconnected = rec.reconnected,
                   !.last = how]

\* line 88: the connect sequence raises ConnectionError out of the call
Raised(rec) == Ended(rec, "ConnectionError")

\* lines 66-75: _connect begins; without an iteration of the loop it raises
StartConnect(rec) ==
    IF mq_cfg.max_retries <= 0
    THEN Raised([rec EXCEPT !.tries = 0, !.waits = << >>])
    ELSE [rec EXCEPT !.pc = "connect_call", !.attempt = 0, !.tries = 1,
                     !.retry_delay = mq_cfg.initial_retry_delay,
                     !.waits = << >>]

\* lines 79-80: _connect returns; publish goes on to the first topic
AfterConnect(rec) ==
    IF rec.op = "publish" THEN [rec EXCEPT !.pc = "sending", !.topic = 1]
    ELSE Ended(rec, "returned")

\* lines 81-88: the attempt timed out or raised; sleep before the next
\* attempt if there is one, else raise
FailedAttempt(rec) ==
    IF rec.attempt < mq_cfg.max_retries - 1
    THEN [rec EXCEPT !.pc = "backoff", !.waits = Append(@, rec.retry_delay)]
    ELSE Raised(rec)

\* an _ensure_connected that does not look at _connected
UnderLock_NoCheck(rec) ==
    [rec EXCEPT !.pc = "sending", !.topic = 1, !.reconnected = ~ mq_connected]

\* lines 110-111, 101-105: under the lock, _ensure_connected runs the connect
\* sequence if _connected is false
UnderLock(rec) ==
    IF mq_connected THEN [rec EXCEPT !.pc = "sending", !.topic = 1]
    ELSE StartConnect([rec EXCEPT !.reconnected = TRUE])

\* the task's step ends in rec; a publish that has ended releases the lock
SetTask(t, rec) ==
    /\ mq_task' = [mq_task EXCEPT ![t] = rec]
    /\ mq_lock' = (IF rec.pc = "idle" /\ mq_lock = t THEN 0 ELSE mq_lock)

\* tasks are interchangeable: a call is made by the first task that is free
Caller(t) ==
    /\ mq_task[t].pc = "idle"
    /\ \A u \in Tasks : u < t => mq_task[u].pc # "idle"

\* async with publisher: __aenter__ runs the connect sequence, without the
\* lock, before the publisher is used
EnterCall(t) ==
    /\ Caller(t)
    /\ calls = 0
    /\ calls < MaxMqCalls
    /\ calls' = calls + 1
    /\ SetTask(t, StartConnect([MqIdle EXCEPT !.op = "__aenter__",
                                              !.call = calls + 1]))
    /\ UNCHANGED << mq_cfg, mq_connected, mq_link, mq_loop, mq_sent,
                    mq_faults >>
    /\ UNCHANGED << directVars, dbVars, auxVars >>

\* a publish that does not take the lock
PublishCall_NoLock(t) ==
    /\ Caller(t)
    /\ calls < MaxMqCalls
    /\ calls' = calls + 1
    /\ mq_task' = [mq_task EXCEPT ![t] =
                      UnderLock([MqIdle EXCEPT !.op = "publish",
                                    !.event = PublishEvent(calls + 1),
                                    !.call = calls + 1])]
    /\ UNCHANGED << mq_cfg, mq_connected, mq_link, mq_loop, mq_sent,
                    mq_faults, mq_lock >>
    /\ UNCHANGED << directVars, dbVars, auxVars >>

\* publish(e), line 109: the task takes the lock if it is free and goes on
\* under it, else it waits for the lock
PublishCall(t) ==
    /\ Caller(t)
    /\ calls < MaxMqCalls
    /\ calls' = calls + 1
    /\ LET rec == [MqIdle EXCEPT !.op = "publish",
                                 !.event = PublishEvent(calls + 1),
                                 !.call = calls + 1]
       IN  IF mq_lock = 0
           THEN /\ mq_task' = [mq_task EXCEPT ![t] = UnderLock(rec)]
                /\ mq_lock' = (IF UnderLock(rec).pc = "idle" THEN 0 ELSE t)
           ELSE /\ mq_task' = [mq_task EXCEPT ![t] =
                                  [rec EXCEPT !.pc = "lock_wait"]]
                /\ UNCHANGED mq_lock
    /\ UNCHANGED << mq_cfg, mq_connected, mq_link, mq_loop, mq_sent,
                    mq_faults >>
    /\ UNCHANGED << directVars, dbVars, auxVars >>

\* the lock has been released: a waiting publish takes it
LockGranted(t) ==
    /\ mq_task[t].pc = "lock_wait"
    /\ mq_lock = 0
    /\ mq_task' = [mq_task EXCEPT ![t] = UnderLock(mq_task[t])]
    /\ mq_lock' = (IF UnderLock(mq_task[t]).pc = "idle" THEN 0 ELSE t)
    /\ UNCHANGED << mq_cfg, mq_connected, mq_link, mq_loop, mq_sent,
                    mq_faults, calls >>
    /\ UNCHANGED << directVars, dbVars, auxVars >>

\* lines 73-76: client.connect has returned, the network loop is started and
\* the task polls _connected
ConnectReturns(t) ==
    /\ mq_task[t].pc = "connect_call"
    /\ mq_link' = "pending"
    /\ mq_loop' = TRUE
    /\ SetTask(t, [mq_task[t] EXCEPT !.pc = "polling"])
    /\ UNCHANGED << mq_cfg, mq_connected, mq_sent, mq_faults, calls >>
    /\ UNCHANGED << directVars, dbVars, auxVars >>

\* lines 73, 82-83: client.connect raises
ConnectRaises(t) ==
    /\ mq_task[t].pc = "connect_call"
    /\ SetTask(t, FailedAttempt(mq_task[t]))
    /\ UNCHANGED << mq_cfg, mq_connected, mq_link, mq_loop, mq_sent,
                    mq_faults, calls >>
    /\ UNCHANGED << directVars, dbVars, auxVars >>

\* lines 77-81: the polls of _connected, 0.1 s apart: a poll finds it true
\* and _connect returns, or the last poll has found it false and the attempt
\* has timed out.  (The acknowledgement may come between any two polls, or
\* after the last.)
Poll(t) ==
    /\ mq_task[t].pc = "polling"
    /\ SetTask(t, IF mq_connected THEN AfterConnect(mq_task[t])
                  ELSE FailedAttempt(mq_task[t]))
    /\ UNCHANGED << mq_cfg, mq_connected, mq_link, mq_loop, mq_sent,
                    mq_faults, calls >>
    /\ UNCHANGED << directVars, dbVars, auxVars >>

\* a backoff that does not grow
BackoffDone_Constant(t) ==
    /\ mq_task[t].pc = "backoff"
    /\ SetTask(t, [mq_task[t] EXCEPT !.pc = "connect_call",
                      !.attempt = @ + 1, !.tries = @ + 1])
    /\ UNCHANGED << mq_cfg, mq_connected, mq_link, mq_loop, mq_sent,
                    mq_faults, calls >>
    /\ UNCHANGED << directVars, dbVars, auxVars >>

\* lines 86-87, 67: the sleep of retry_delay is over; the delay doubles up to
\* the cap and the next attempt begins
BackoffDone(t) ==
    /\ mq_task[t].pc = "backoff"
    /\ SetTask(t, [mq_task[t] EXCEPT !.pc = "connect_call",
                      !.retry_delay = Min(@ * 2, MaxRetryDelay),
                      !.attempt = @ + 1, !.tries = @ + 1])
    /\ UNCHANGED << mq_cfg, mq_connected, mq_link, mq_loop, mq_sent,
                    mq_faults, calls >>
    /\ UNCHANGED << directVars, dbVars, auxVars >>

\* _on_connect with rc = 0: the broker has acknowledged the connection
OnConnect ==
    /\ mq_link = "pending"
    /\ mq_connected' = TRUE
    /\ mq_link' = "up"
    /\ UNCHANGED << mq_cfg, mq_lock, mq_loop, mq_task, mq_sent, mq_faults,
                    calls >>
    /\ UNCHANGED << directVars, dbVars, auxVars >>

\* _on_connect with rc # 0: the broker has refused the connection
OnConnectRefused ==
    /\ mq_link = "pending"
    /\ mq_link' = "none"
    /\ UNCHANGED << mq_cfg, mq_connected, mq_lock, mq_loop, mq_task, mq_sent,
                    mq_faults, calls >>
    /\ UNCHANGED << directVars, dbVars, auxVars >>

\* _on_disconnect: the connection has dropped; the client's network loop
\* may be connecting again by itself
OnDisconnect ==
    /\ mq_link = "up"
    /\ mq_connected' = FALSE
    /\ mq_link' \in {"none", "pending"}
    /\ UNCHANGED << mq_cfg, mq_lock, mq_loop, mq_task, mq_sent, mq_faults,
                    calls >>
    /\ UNCHANGED << directVars, dbVars, auxVars >>

Outcomes == {"ok", "rc_error", "raised"}

SendEntry(rec, res) ==
    [call |-> rec.call, event |-> rec.event.event_id,
     topic |-> Topics(rec.event)[rec.topic], qos |-> 1, res |-> res]

\* a send whose failure ends the publish
Send_AbortsOnError(t, res) ==
    /\ mq_task[t].pc = "sending"
    /\ res # "ok" => mq_faults < MaxSendFaults
    /\ mq_faults' = (IF res = "ok" THEN mq_faults ELSE mq_faults + 1)
    /\ mq_sent' = Append(mq_sent, SendEntry(mq_task[t], res))
    /\ SetTask(t, IF res # "ok"
                  THEN Ended(mq_task[t], "raised")
                  ELSE IF mq_task[t].topic < 4
                  THEN [mq_task[t] EXCEPT !.topic = @ + 1]
                  ELSE Ended(mq_task[t], "returned"))
    /\ UNCHANGED << mq_cfg, mq_connected, mq_link, mq_loop, calls >>
    /\ UNCHANGED << directVars, dbVars, auxVars >>

\* lines 120-139: client.publish(topic, payload, qos=1) has run on the worker
\* thread: it succeeded, returned an error code or raised; either failure is
\* logged and the loop goes on; after the fourth topic publish returns
Send(t, res) ==
    /\ mq_task[t].pc = "sending"
    /\ res # "ok" => mq_faults < MaxSendFaults
    /\ mq_faults' = (IF res = "ok" THEN mq_faults ELSE mq_faults + 1)
    /\ mq_sent' = Append(mq_sent, SendEntry(mq_task[t], res))
    /\ SetTask(t, IF mq_task[t].topic < 4
                  THEN [mq_task[t] EXCEPT !.topic = @ + 1]
                  ELSE Ended(mq_task[t], "returned"))
    /\ UNCHANGED << mq_cfg, mq_connected, mq_link, mq_loop, calls >>
    /\ UNCHANGED << directVars, dbVars, auxVars >>

ConnectStep(t) ==
    ConnectReturns(t) \/ ConnectRaises(t) \/ Poll(t) \/ BackoffDone(t)

NextMqtt ==
    \/ \E t \in Tasks : EnterCall(t)
    \/ \E t \in Tasks : PublishCall(t)
    \/ \E t \in Tasks : LockGranted(t)
    \/ \E t \in Tasks : ConnectReturns(t)
    \/ \E t \in Tasks : ConnectRaises(t)
    \/ \E t \in Tasks : Poll(t)
    \/ \E t \in Tasks : BackoffDone(t)
    \/ OnConnect
    \/ OnConnectRefused
    \/ OnDisconnect
    \/ \E t \in Tasks : \E res \in Outcomes : Send(t, res)

SpecMqtt == InitMqtt /\ [][NextMqtt]_vars

\* SpecMqttConnect: the connect sequence of __aenter__ alone, with the
\* callbacks of the client; the event loop runs a task that can go on.
NextMqttConnect ==
    \/ \E t \in Tasks : EnterCall(t)
    \/ \E t \in Tasks : ConnectReturns(t)
    \/ \E t \in Tasks : ConnectRaises(t)
    \/ \E t \in Tasks : Poll(t)
    \/ \E t \in Tasks : BackoffDone(t)
    \/ OnConnect
    \/ OnConnectRefused
    \/ OnDisconnect

SpecMqttConnect ==
    /\ InitMqttConnect /\ [][NextMqttConnect]_vars
    /\ \A t \in Tasks : WF_vars(ConnectStep(t))


(***************************************************************************)
(* C17: the connect sequence                                               *)
(***************************************************************************)
InConnect(t) == mq_task[t].pc \in {"connect_call", "polling", "backoff"}

\* the number of attempts a publisher with this configuration makes at most
AttemptLimit == IF mq_cfg.max_retries > 0 THEN mq_cfg.max_retries ELSE 0

\* the waits of one connect sequence: initial_retry_delay, then twice the
\* wait before, at most MaxRetryDelay
BackoffSchedule(w) ==
    \A k \in 1..Len(w) :
        w[k] = (IF k = 1 THEN mq_cfg.initial_retry_delay
                ELSE Min(2 * w[k - 1], MaxRetryDelay))

\* C17 as stated: a wait follows every failed attempt, so a sequence that
\* fails after max_retries attempts has waited max_retries times.
C17_WaitAfterEveryFailedAttempt ==
    \A t \in Tasks :
        mq_task[t].last = "ConnectionError" =>
            /\ mq_task[t].tries = AttemptLimit
            /\ Len(mq_task[t].waits) = mq_task[t].tries
            /\ BackoffSchedule(mq_task[t].waits)

\* attempts and waits of a connect sequence, running or over
C17_Attempts ==
    \A t \in Tasks :
        LET r == mq_task[t]
        IN  r.op # "" =>
              /\ r.tries <= AttemptLimit
              /\ BackoffSchedule(r.waits)
              /\ r.pc = "backoff" =>
                    Len(r.waits) = r.tries /\ r.tries < AttemptLimit
              /\ r.pc \in {"connect_call", "polling"} =>
                    Len(r.waits) = r.tries - 1
              /\ r.last = "returned" => Len(r.waits) = r.tries - 1
              /\ r.last = "ConnectionError" =>
                    /\ r.tries = AttemptLimit
                    /\ Len(r.waits) = (IF r.tries = 0 THEN 0 ELSE r.tries - 1)

\* C17 (amended): the connect sequence always terminates; it makes at most
\* max_retries attempts; it returns at the first poll of an attempt that finds
\* the connection acknowledged; it waits between attempts only, that is after
\* each failed attempt but the last: initial_retry_delay after the first, then
\* twice the wait before, at most 30 s; and it fails with ConnectionError only
\* after exactly max_retries attempts (none when max_retries <= 0).
C17_ConnectSequence ==
    /\ []C17_Attempts
    /\ [][ \A t \in Tasks :
             (Poll(t) /\ mq_connected) =>
                 /\ mq_task'[t].pc = "idle"
                 /\ mq_task'[t].last = "returned" ]_vars
    /\ \A t \in Tasks : InConnect(t) ~> ~ InConnect(t)

\* three attempts fail: waits of 20 s and 30 s, then ConnectionError
C17_Witness ==
    /\ mq_cfg.max_retries = 3
    /\ \E t \in Tasks :
          /\ mq_task[t].op = "__aenter__"
          /\ mq_task[t].last = "ConnectionError"
          /\ mq_task[t].tries = 3
          /\ mq_task[t].waits = << 20, 30 >>

(***************************************************************************)
(* C18: the fan-out of publish                                             *)
(***************************************************************************)
\* what has been handed to client.publish by the call numbered c, in order
CallSends(c) == SelectSeq(mq_sent, LAMBDA m : m.call = c)

\* C18: publish(event) hands the event to client.publish once per topic, for
\* <prefix>/all, <prefix>/type/<event_type>, <prefix>/node/<node_id> and
\* <prefix>/node/<node_id>/type/<event_type> in that order, each at QoS 1; a
\* send that returns an error code or raises does not end the loop: a publish
\* that found the publisher connected always returns, after four sends, and
\* no failure of a send ever comes out of publish.
C18_FanOut ==
    /\ \A c \in 1..MaxMqCalls :
          /\ Len(CallSends(c)) <= 4
          /\ \A k \in 1..Len(CallSends(c)) :
                /\ CallSends(c)[k].topic = Topics(PublishEvent(c))[k]
                /\ CallSends(c)[k].event = PublishEvent(c).event_id
                /\ CallSends(c)[k].qos = 1
    /\ \A t \in Tasks :
          LET r == mq_task[t]
          IN  r.op = "publish" =>
                /\ r.last \in {"", "returned", "ConnectionError"}
                /\ r.last = "ConnectionError" => r.reconnected
                /\ r.last = "returned" => Len(CallSends(r.call)) = 4
                /\ r.pc = "sending" => Len(CallSends(r.call)) = r.topic - 1

\* a publish on a connected publisher has returned after four sends, though
\* one of the first three failed
C18_Witness ==
    \E t \in Tasks :
        /\ mq_task[t].op = "publish"
        /\ ~ mq_task[t].reconnected
        /\ mq_task[t].last = "returned"
        /\ Len(CallSends(mq_task[t].call)) = 4
        /\ \E k \in 1..3 : CallSends(mq_task[t].call)[k].res = "raised"
        /\ CallSends(mq_task[t].call)[4].res = "ok"

(***************************************************************************)
(* C19: publishes are serialized                                           *)
(***************************************************************************)
\* the task is inside the body of publish: reconnecting or sending
InPublish(t) ==
    /\ mq_task[t].op = "publish"
    /\ mq_task[t].pc \in {"connect_call", "polling", "backoff", "sending"}

\* C19: concurrent publish calls are serialized by the publisher's lock: at
\* most one call is inside the body of publish (its connection check, its
\* connect sequence and its four sends) and that call holds the lock; the
\* four sends of one call are contiguous: where the call changes in what has
\* been sent, the four sends of the earlier call are the four just before.
C19_PublishSerialized ==
    /\ Cardinality({t \in Tasks : InPublish(t)}) <= 1
    /\ \A t \in Tasks : InPublish(t) => mq_lock = t
    /\ \A i \in 1..(Len(mq_sent) - 1) :
          mq_sent[i].call # mq_sent[i + 1].call =>
              /\ Len(CallSends(mq_sent[i].call)) = 4
              /\ i >= 4
              /\ \A d \in 1..3 : mq_sent[i - d].call = mq_sent[i].call

\* one publish is between its second and third send, under the lock, while
\* another waits for the lock
C19_Witness ==
    \E t, u \in Tasks :
        /\ mq_task[t].op = "publish" /\ mq_task[t].pc = "sending"
        /\ mq_task[t].topic = 3
        /\ mq_lock = t
        /\ mq_task[u].op = "publish" /\ mq_task[u].pc = "lock_wait"

(***************************************************************************)
(* C20: publish after the connection has dropped                           *)
(***************************************************************************)
\* the connection check of publish: the call has the lock and looks at
\* _connected
ConnectionCheck(t) == (PublishCall(t) /\ mq_lock = 0) \/ LockGranted(t)

\* C20: a publish whose connection check finds the connection dropped runs
\* the connect sequence first and sends nothing meanwhile; its sends begin
\* only at a poll that finds the connection acknowledged; and if the connect
\* sequence exhausts its attempts the call ends with ConnectionError and
\* nothing has been sent to any topic for its event.
C20_ReconnectBeforeSend ==
    /\ [](\A t \in Tasks :
            LET r == mq_task[t]
            IN  (r.op = "publish" /\ r.reconnected) =>
                  /\ InConnect(t) => CallSends(r.call) = << >>
                  /\ r.last = "ConnectionError" =>
                        /\ CallSends(r.call) = << >>
                        /\ r.tries = AttemptLimit
                  /\ (r.pc = "sending" \/ r.last = "returned") => r.tries >= 1)
    /\ [][ \A t \in Tasks :
             /\ (ConnectionCheck(t) /\ ~ mq_connected) =>
                   /\ mq_task'[t].reconnected
                   /\ InConnect(t)' \/ mq_task'[t].last = "ConnectionError"
                   /\ mq_sent' = mq_sent
             /\ (InConnect(t) /\ mq_task[t].op = "publish"
                   /\ mq_task'[t].pc = "sending") => mq_connected ]_vars

\* __aenter__ had connected the publisher, the connection dropped, and a
\* publish has reconnected and then sent to the four topics
C20_Witness ==
    \E t, u \in Tasks :
        /\ mq_task[u].op = "__aenter__" /\ mq_task[u].last = "returned"
        /\ mq_task[t].op = "publish" /\ mq_task[t].reconnected
        /\ mq_task[t].last = "returned"
        /\ mq_task[t].tries = 2
        /\ Len(CallSends(mq_task[t].call)) = 4

\* the same, but the reconnection has exhausted its attempts: nothing sent
C20_WitnessExhausted ==
    \E t, u \in Tasks :
        /\ mq_task[u].op = "__aenter__" /\ mq_task[u].last = "returned"
        /\ mq_task[t].op = "publish" /\ mq_task[t].reconnected
        /\ mq_task[t].last = "ConnectionError"
        /\ mq_task[t].tries = 2
        /\ mq_sent = << >>

(***************************************************************************)
(* SpecMqttClose: __aenter__, the callbacks of the client and close() of   *)
(* one MqttEventPublisher.                                                 *)
(***************************************************************************)
MaxCloseCalls == 3

\* close(), lines 93-96: nothing is done unless _connected is true; else the
\* network loop is stopped and client.disconnect runs on a worker thread
PublisherClose(t) ==
    /\ Caller(t)
    /\ calls < MaxCloseCalls
    /\ calls' = calls + 1
    /\ LET rec == [MqIdle EXCEPT !.op = "close", !.call = calls + 1]
       IN  IF mq_connected
           THEN /\ mq_loop' = FALSE
                /\ SetTask(t, [rec EXCEPT !.pc = "disconnecting"])
           ELSE /\ mq_loop' = mq_loop
                /\ SetTask(t, Ended(rec, "returned"))
    /\ UNCHANGED << mq_cfg, mq_connected, mq_link, mq_sent, mq_faults >>
    /\ UNCHANGED << directVars, dbVars, auxVars >>

\* close(), lines 97-99: client.disconnect has returned; _connected is
\* cleared and close returns
Disconnected(t) ==
    /\ mq_task[t].pc = "disconnecting"
    /\ mq_link' = "none"
    /\ mq_connected' = FALSE
    /\ SetTask(t, Ended(mq_task[t], "returned"))
    /\ UNCHANGED << mq_cfg, mq_loop, mq_sent, mq_faults, calls >>
    /\ UNCHANGED << directVars, dbVars, auxVars >>

NextMqttClose ==
    \/ NextMqttConnect
    \/ \E t \in Tasks : PublisherClose(t)
    \/ \E t \in Tasks : Disconnected(t)

SpecMqttClose == InitMqttConnect /\ [][NextMqttClose]_vars

(***************************************************************************)
(* C21: close() of the publisher                                           *)
(***************************************************************************)
\* no call of the publisher is in progress and the last one was a close()
ClosedLast ==
    /\ \A t \in Tasks : mq_task[t].pc = "idle"
    /\ \E t \in Tasks : mq_task[t].op = "close" /\ mq_task[t].call = calls

\* C21 as stated: once close() has returned, whatever the publisher's state
\* was, the network loop is stopped and the client is disconnected.
C21_CloseStopsLoop ==
    ClosedLast => (~ mq_loop /\ mq_link = "none" /\ ~ mq_connected)

\* what close() does do: on a connected publisher it stops the network loop
\* and, when client.disconnect has returned, clears _connected; on a
\* publisher that is not connected it changes nothing
C21_CloseWhenConnected ==
    [][ \A t \in Tasks :
          /\ (PublisherClose(t) /\ mq_connected) => ~ mq_loop'
          /\ Disconnected(t) =>
                (~ mq_connected' /\ mq_link' = "none"
                    /\ mq_task'[t].last = "returned")
          /\ (PublisherClose(t) /\ ~ mq_connected) =>
                /\ UNCHANGED << mq_cfg, mq_connected, mq_link, mq_loop,
                                mq_lock, mq_sent >>
                /\ mq_task'[t].last = "returned" ]_vars

\* close() has returned twice after a connect sequence that failed with the
\* network loop started: the loop is still running
C21_WitnessLoopLeft ==
    /\ ClosedLast /\ calls = 3
    /\ mq_loop
    /\ \E t \in Tasks : mq_task[t].op = "close" /\ mq_task[t].call = 2

(***************************************************************************)
(* SpecRunner: main_loop of main.py: startup, service.run(), and the       *)
(* releases of its finally block.                                          *)
(***************************************************************************)
InitRunner ==
    /\ InitDirect /\ cfg.kind = "sqlite"
    /\ NewSqliteStore("SqliteEventStore")
    /\ task = [t \in Tasks |-> IdleTask(1)]
    /\ NewPublisher(DefaultMqttMaxRetries, DefaultInitialRetryDelay)
    /\ \E mqtt_enabled \in BOOLEAN : runner = NewRunner(mqtt_enabled)
    /\ final_stats = << >> /\ web = << >> /\ commander = << >>
    /\ source = << >> /\ input = << >> /\ output = << >>

RunnerUnchanged ==
    UNCHANGED << directVars, dbVars, mqVars, calls, final_stats, web,
                 commander, source, input, output >>

\* lines 178-182: the try block has been left by CancelledError (logged,
\* swallowed), by another exception (logged, raised again after the finally
\* block) or by the return of service.run(); the finally block begins
Finally(r, how) == [r EXCEPT !.ended = how, !.pc = "release_publisher"]

StartupOutcomes == {"ok", "error", "cancelled"}

\* line 161: create_publisher; an MqttEventPublisher is connected by
\* __aenter__ before it is returned, a LoggingPublisher is only constructed
CreatePublisher(o) ==
    /\ runner.pc = "create_publisher"
    /\ ~ runner.mqtt_enabled => o = "ok"
    /\ runner' = (IF o = "ok"
                  THEN [runner EXCEPT !.publisher = TRUE,
                                      !.pc = "enter_event_store"]
                  ELSE Finally(runner, o))
    /\ RunnerUnchanged

\* lines 162-163: the event store is constructed, then entered
EnterEventStore(o) ==
    /\ runner.pc = "enter_event_store"
    /\ runner' = (IF o = "ok"
                  THEN [runner EXCEPT !.event_store = TRUE,
                                      !.pc = "enter_state_store"]
                  ELSE Finally([runner EXCEPT !.event_store = TRUE], o))
    /\ RunnerUnchanged

\* lines 164-165: the state store is constructed, then entered
EnterStateStore(o) ==
    /\ runner.pc = "enter_state_store"
    /\ runner' = (IF o = "ok"
                  THEN [runner EXCEPT !.state_store = TRUE, !.pc = "run"]
                  ELSE Finally([runner EXCEPT !.state_store = TRUE], o))
    /\ RunnerUnchanged

\* lines 166-177: the service is constructed and run() ends: the source is
\* exhausted, run() raises, or it is cancelled
ServiceRun(o) ==
    /\ runner.pc = "run"
    /\ runner' = Finally(runner, o)
    /\ RunnerUnchanged

\* a release whose error leaves the finally block
Released_Aborts(r, held, name, next, o) ==
    IF ~ held THEN [r EXCEPT !.pc = next]
    ELSE IF o = "error"
    THEN [r EXCEPT !.released = Append(@, name), !.pc = "exited",
                   !.exit = "raised"]
    ELSE [r EXCEPT !.released = Append(@, name), !.pc = next]

\* lines 185-199: one release of the finally block: if the resource is held
\* its __aexit__ is awaited, and an exception it raises is logged
Released(r, held, name, next, o) ==
    IF ~ held THEN [r EXCEPT !.pc = next]
    ELSE [r EXCEPT !.released = Append(@, name),
                   !.logged = (IF o = "error" THEN Append(@, name) ELSE @),
                   !.pc = next]

ReleaseOutcomes == {"ok", "error"}

\* lines 185-189
ReleasePublisher(o) ==
    /\ runner.pc = "release_publisher"
    /\ ~ (runner.publisher /\ runner.mqtt_enabled) => o = "ok"
    /\ runner' = Released(runner, runner.publisher /\ runner.mqtt_enabled,
                          "publisher", "release_event_store", o)
    /\ RunnerUnchanged

\* lines 190-194
ReleaseEventStore(o) ==
    /\ runner.pc = "release_event_store"
    /\ ~ runner.event_store => o = "ok"
    /\ runner' = Released(runner, runner.event_store, "event_store",
                          "release_state_store", o)
    /\ RunnerUnchanged

\* lines 195-200: the last release; main_loop returns, or raises again the
\* exception that ended the try block
ReleaseStateStore(o) ==
    /\ runner.pc = "release_state_store"
    /\ ~ runner.state_store => o = "ok"
    /\ LET r == Released(runner, runner.state_store, "state_store",
                         "exited", o)
       IN  runner' = (IF r.exit # "" THEN r
                      ELSE [r EXCEPT !.exit = IF r.ended = "error"
                                              THEN "raised" ELSE "returned"])
    /\ RunnerUnchanged

NextRunner ==
    \/ \E o \in StartupOutcomes : CreatePublisher(o)
    \/ \E o \in StartupOutcomes : EnterEventStore(o)
    \/ \E o \in StartupOutcomes : EnterStateStore(o)
    \/ \E o \in {"returned", "error", "cancelled"} : ServiceRun(o)
    \/ \E o \in ReleaseOutcomes : ReleasePublisher(o)
    \/ \E o \in ReleaseOutcomes : ReleaseEventStore(o)
    \/ \E o \in ReleaseOutcomes : ReleaseStateStore(o)

SpecRunner == InitRunner /\ [][NextRunner]_vars

(***************************************************************************)
(* C22: the releases of the runner                                         *)
(***************************************************************************)
\* what main_loop holds that has something to release, in the order of the
\* finally block; a LoggingPublisher has nothing to release
HeldResources ==
    (IF runner.publisher /\ runner.mqtt_enabled THEN << "publisher" >>
     ELSE << >>)
    \o (IF runner.event_store THEN << "event_store" >> ELSE << >>)
    \o (IF runner.state_store THEN << "state_store" >> ELSE << >>)

IsSubSeqOf(a, b) ==
    \E f \in [1..Len(a) -> 1..Len(b)] :
        /\ \A i \in 1..Len(a) : a[i] = b[f[i]]
        /\ \A i, j \in 1..Len(a) : i < j => f[i] < f[j]

C23_CancelledOnlyAtPull ==
    [][ (pc' = "cancelled" /\ pc # "cancelled") => pc = "pull" ]_vars

\* run() was cancelled in the projection of an event that the SQLite store
\* has appended: the event is stored, but neither projected nor published
C23_WitnessStoredNotProjected ==
    /\ pc = "cancelled" /\ cfg.kind = "sqlite" /\ cfg.projection
    /\ log # << >>
    /\ Last(log) = Entry("append", "ok", 0)
    /\ event_exists(store, event.event_id)
    /\ get_node(states, event.node_id) = None
    /\ published = << >>

\* the counters as run() logs them
Counters ==
    [processed |-> processed_count, error |-> error_count,
     duplicate |-> duplicate_count]

\* C24: a cancellation delivered to run(), at whichever await it is
\* suspended in (the pull, a store call, the projection, the publish or the
\* retry wait), ends run() with the cancellation raised to its caller, after
\* the final counters have been logged; it is not counted as an error or as
\* anything else, it is followed by no retry and by no further call, and
\* run() ends this way by cancellation only.
C24_CancellationPropagates ==
    /\ [][ Cancel =>
             /\ pc' = "cancelled"
             /\ final_stats' = << Counters >>
             /\ Counters' = Counters
             /\ UNCHANGED << attempt, log, faults >> ]_vars
    /\ [][ pc = "cancelled" => UNCHANGED << pc, store, states, published,
                                            log, final_stats >> ]_vars
    /\ [](pc = "cancelled" <=> final_stats # << >>)
    /\ [](pc = "cancelled" => final_stats = << Counters >>)

\* run() was cancelled in the wait after a failed attempt: no error counted,
\* no second attempt made
C24_Witness ==
    /\ pc = "cancelled"
    /\ log # << >>
    /\ Last(log).res = "fail" /\ Last(log).op \in {"append", "project"}
    /\ FailedAttempts = 1
    /\ final_stats = << [processed |-> 0, error |-> 0, duplicate |-> 0] >>
    /\ error_count = 0

(***************************************************************************)
(* SpecWeb: adapters/ui/web.py, the POST /api/send_message route           *)
(***************************************************************************)
MaxRequests == 2

Digits == {"0", "1", "2", "3", "4", "5", "6", "7", "8", "9"}

DigitValue(c) ==
    CASE c = "0" -> 0 [] c = "1" -> 1 [] c = "2" -> 2 [] c = "3" -> 3
      [] c = "4" -> 4 [] c = "5" -> 5 [] c = "6" -> 6 [] c = "7" -> 7
      [] c = "8" -> 8 [] c = "9" -> 9

RECURSIVE DecimalValue(_)
DecimalValue(q) ==
    IF q = << >> THEN 0
    ELSE 10 * DecimalValue(SubSeq(q, 1, Len(q) - 1)) + DigitValue(q[Len(q)])

\* int(text) of a form field, given as its characters: Some(n) for an
\* optional sign followed by decimal digits, None where int raises ValueError
int(q) ==
    LET signed == q # << >> /\ q[1] \in {"+", "-"}
        digits == IF signed THEN Tail(q) ELSE q
    IN  IF digits = << >> \/ \E k \in 1..Len(digits) : digits[k] \notin Digits
        THEN None
        ELSE Some(IF signed /\ q[1] = "-" THEN 0 - DecimalValue(digits)
                  ELSE DecimalValue(digits))

\* the form of a request: each field is absent (None) or has a text
Forms ==
    [message : {None, Some(""), Some("hello")},
     recipient : {None, Some("broadcast"), Some("!a1b2c3d4")},
     channel : {None, Some(<< "0" >>), Some(<< "1", "2" >>),
                Some(<< "-", "1" >>), Some(<< "x" >>), Some(<< >>)}]

\* create_app, lines 45-70
NewWeb ==
    [stores_initialized |-> FALSE, requests |-> << >>, responses |-> << >>,
     commander_calls |-> << >>]

InitWeb ==
    /\ InitDirect /\ cfg.kind = "sqlite"
    /\ NewSqliteStore("SqliteEventStore")
    /\ task = [t \in Tasks |-> IdleTask(1)]
    /\ NewPublisher(DefaultMqttMaxRetries, DefaultInitialRetryDelay)
    /\ runner = NewRunner(TRUE)
    /\ final_stats = << >> /\ commander = << >>
    /\ source = << >> /\ input = << >> /\ output = << >>
    /\ web = NewWeb

\* request.form.get(name, default)
FormGet(field, default) == IF field = None THEN default ELSE field[1]

\* the response of send_message to the form f, and the call it makes to the
\* commander, if any; ok is what the commander's result says
send_message(f, k, ok) ==
    LET text == FormGet(f.message, "")
        channel == IF f.channel = None THEN Some(0) ELSE int(f.channel[1])
        destination == IF f.recipient = Some("broadcast") THEN None
                       ELSE f.recipient
    IN  IF channel = None
        THEN [response |-> [status |-> 500, success |-> FALSE],
              calls |-> << >>]
        ELSE IF text = ""
        THEN [response |-> [status |-> 400, success |-> FALSE],
              calls |-> << >>]
        ELSE [response |-> [status |-> 200, success |-> ok],
              calls |-> << [request |-> k, text |-> text,
                            destination |-> destination,
                            channel |-> channel[1]] >>]

\* one POST /api/send_message: the before_request hook (lines 74-78), then
\* the route (lines 178-205).  An exception of the route is answered by
\* Flask with HTTP 500.
SendMessage(f, ok) ==
    /\ Len(web.requests) < MaxRequests
    /\ LET k == Len(web.requests) + 1
           r == send_message(f, k, ok)
       IN  /\ r.calls = << >> => ok
           /\ web' = [web EXCEPT !.stores_initialized = TRUE,
                                 !.requests = Append(@, f),
                                 !.responses = Append(@, r.response),
                                 !.commander_calls = @ \o r.calls]
    /\ UNCHANGED << directVars, dbVars, mqVars, calls, runner, final_stats,
                    commander, source, input, output >>

NextWeb == \E f \in Forms : \E ok \in BOOLEAN : SendMessage(f, ok)

SpecWeb == InitWeb /\ [][NextWeb]_vars

(***************************************************************************)
(* C25: validation of the send-message route                               *)
(***************************************************************************)
\* the calls made to the commander for the k-th request
CallsOf(k) == SelectSeq(web.commander_calls, LAMBDA c : c.request = k)

\* what C25 says of the k-th request
SendMessageContract(k) ==
    LET f == web.requests[k]
        r == web.responses[k]
    IN  IF f.message \in {None, Some("")}
        THEN r.status = 400 /\ ~ r.success /\ CallsOf(k) = << >>
        ELSE /\ Len(CallsOf(k)) = 1
             /\ CallsOf(k)[1].text = f.message[1]
             /\ CallsOf(k)[1].destination =
                    (IF f.recipient = Some("broadcast") THEN None
                     ELSE f.recipient)

\* C25 as stated: every request with an empty or missing message is
\* answered with HTTP 400 and a failure, without a call to the commander;
\* every request with a message makes exactly one call of send_text, to no
\* destination when recipient is "broadcast" and to the recipient otherwise.
C25_SendMessage ==
    \A k \in 1..Len(web.requests) : SendMessageContract(k)

\* the channel field is absent or is the text of an integer
IntegerChannel(f) == f.channel = None \/ int(f.channel[1]) # None

\* the same for the requests whose channel field, if present, is an integer
C25_SendMessageIntegerChannel ==
    \A k \in 1..Len(web.requests) :
        IntegerChannel(web.requests[k]) => SendMessageContract(k)

\* an empty message was refused, then a message was sent as a broadcast
C25_WitnessIntegerChannel ==
    /\ Len(web.requests) = 2
    /\ web.requests[1].message = Some("")
    /\ web.responses[1].status = 400
    /\ web.requests[2].recipient = Some("broadcast")
    /\ web.requests[2].channel = Some(<< "1", "2" >>)
    /\ web.commander_calls =
          << [request |-> 2, text |-> "hello", destination |-> None,
              channel |-> 12] >>

(***************************************************************************)
(* SpecCli: main.py parse_args over config.py MeshCoreConfig.from_env      *)
(***************************************************************************)
\* the environment: each variable is unset (None) or has a text
Environments ==
    [MESHCORE_SOURCE : {None, Some("serial")},
     MESHCORE_MESHTASTIC_DEVICE : {None, Some("/dev/ttyUSB0")},
     MESHCORE_MESHTASTIC_TCP_HOST : {None, Some("10.0.0.1")},
     MESHCORE_MOCK_INTERVAL : {None, Some("3.0")},
     MESHCORE_MQTT_ENABLED : {None, Some("false"), Some("TRUE")},
     MESHCORE_MQTT_HOST : {None, Some("broker.lan")},
     MESHCORE_MQTT_TOPIC : {None, Some("mesh/env")}]

\* the command line: each flag is absent (None) or given with a value;
\* --no-mqtt and --debug are given or not
CommandLines ==
    [source : {None, Some("tcp")},
     device : {None, Some("/dev/ttyACM0")},
     tcp_host : {None, Some("10.0.0.2")},
     mock_interval : {None, Some("0.5")},
     no_mqtt : BOOLEAN,
     mqtt_host : {None, Some("10.0.0.9")},
     mqtt_topic : {None, Some("mesh/flag")},
     debug : BOOLEAN]

\* os.getenv(name, default)
getenv(v, default) == IF v = None THEN default ELSE v[1]

\* str.lower() of the texts of MESHCORE_MQTT_ENABLED
lower(text) == IF text = "TRUE" THEN "true" ELSE text

\* float(text): the number, written by its decimal text
float(text) == [float |-> text]

\* MeshCoreConfig.from_env, the settings the runner's flags are about
from_env(env) ==
    [meshtastic_source |-> getenv(env.MESHCORE_SOURCE, "mock"),
     meshtastic_device |-> env.MESHCORE_MESHTASTIC_DEVICE,
     meshtastic_tcp_host |-> env.MESHCORE_MESHTASTIC_TCP_HOST,
     mock_interval |-> float(getenv(env.MESHCORE_MOCK_INTERVAL, "1.5")),
     mqtt_enabled |->
         (lower(getenv(env.MESHCORE_MQTT_ENABLED, "true")) = "true"),
     mqtt_host |-> getenv(env.MESHCORE_MQTT_HOST, "localhost"),
     mqtt_topic |-> getenv(env.MESHCORE_MQTT_TOPIC, "meshcore/events")]

\* lines 31-50: the namespace argparse builds: a flag that is absent has its
\* default, which is None where add_argument gives none
parse(argv) ==
    [source |-> argv.source,
     device |-> argv.device,
     tcp_host |-> argv.tcp_host,
     mock_interval |-> float(getenv(argv.mock_interval, "1.5")),
     mqtt_host |-> Some(getenv(argv.mqtt_host, "localhost")),
     mqtt_topic |-> Some(getenv(argv.mqtt_topic, "meshcore/events")),
     no_mqtt |-> argv.no_mqtt]

\* no argument at all: parse_args returns None and the runner asks
NoArguments(argv) ==
    /\ argv.source = None /\ argv.device = None /\ argv.tcp_host = None
    /\ argv.mock_interval = None /\ argv.mqtt_host = None
    /\ argv.mqtt_topic = None /\ ~ argv.no_mqtt /\ ~ argv.debug

\* if args.x: an absent value and an empty text are both false
Truthy(v) == v # None /\ v[1] # ""

\* parse_args, lines 29-71
parse_args(env, argv) ==
    LET args == parse(argv)
        config == from_env(env)
    IN  IF NoArguments(argv) THEN None
        ELSE Some([config EXCEPT
               !.meshtastic_source =
                   IF Truthy(args.source) THEN args.source[1] ELSE @,
               !.meshtastic_device =
                   IF Truthy(args.device) THEN args.device ELSE @,
               !.meshtastic_tcp_host =
                   IF Truthy(args.tcp_host) THEN args.tcp_host ELSE @,
               !.mock_interval = args.mock_interval,
               !.mqtt_enabled = ~ args.no_mqtt,
               !.mqtt_host =
                   IF Truthy(args.mqtt_host) THEN args.mqtt_host[1] ELSE @,
               !.mqtt_topic =
                   IF Truthy(args.mqtt_topic) THEN args.mqtt_topic[1]
                   ELSE @])

FunctionUnchanged ==
    UNCHANGED << directVars, dbVars, mqVars, calls, runner, final_stats,
                 web, commander, source >>

InitFunction ==
    /\ InitDirect /\ cfg.kind = "sqlite"
    /\ NewSqliteStore("SqliteEventStore")
    /\ task = [t \in Tasks |-> IdleTask(1)]
    /\ NewPublisher(DefaultMqttMaxRetries, DefaultInitialRetryDelay)
    /\ runner = NewRunner(TRUE)
    /\ final_stats = << >> /\ web = << >> /\ commander = << >>
    /\ source = << >>
    /\ output = << >>

InitCli ==
    /\ InitFunction
    /\ \E env \in Environments : \E argv \in CommandLines :
          input = [env |-> env, argv |-> argv]

\* main, line 205: config = parse_args()
ParseArgs ==
    /\ output = << >>
    /\ output' = << parse_args(input.env, input.argv) >>
    /\ UNCHANGED input
    /\ FunctionUnchanged

SpecCli == InitCli /\ [][ParseArgs]_vars

(***************************************************************************)
(* C26: the layers of the configuration                                    *)
(***************************************************************************)
\* parse_args has returned a configuration (the runner is flag-driven)
Configured == output # << >> /\ output[1] # None

\* C26 as stated: for every setting, when its flag is absent from the
\* command line the configuration has the value of the environment variable,
\* or the default if the variable is unset.
C26_FlagAbsentKeepsEnvironment ==
    Configured =>
      LET config == output[1][1]
          env == from_env(input.env)
          argv == input.argv
      IN  /\ argv.source = None =>
                config.meshtastic_source = env.meshtastic_source
          /\ argv.device = None =>
                config.meshtastic_device = env.meshtastic_device
          /\ argv.tcp_host = None =>
                config.meshtastic_tcp_host = env.meshtastic_tcp_host
          /\ argv.mock_interval = None =>
                config.mock_interval = env.mock_interval
          /\ ~ argv.no_mqtt => config.mqtt_enabled = env.mqtt_enabled
          /\ argv.mqtt_host = None => config.mqtt_host = env.mqtt_host
          /\ argv.mqtt_topic = None => config.mqtt_topic = env.mqtt_topic

\* what holds: source, device and TCP host keep the environment's value when
\* their flag is absent, and every flag that is given sets its setting
C26_SourceFlagsLayered ==
    Configured =>
      LET config == output[1][1]
          env == from_env(input.env)
          argv == input.argv
      IN  /\ config.meshtastic_source =
                (IF argv.source = None THEN env.meshtastic_source
                 ELSE argv.source[1])
          /\ config.meshtastic_device =
                (IF argv.device = None THEN env.meshtastic_device
                 ELSE argv.device)
          /\ config.meshtastic_tcp_host =
                (IF argv.tcp_host = None THEN env.meshtastic_tcp_host
                 ELSE argv.tcp_host)
          /\ argv.mock_interval # None =>
                config.mock_interval = float(argv.mock_interval[1])
          /\ argv.no_mqtt => ~ config.mqtt_enabled
          /\ argv.mqtt_host # None => config.mqtt_host = argv.mqtt_host[1]
          /\ argv.mqtt_topic # None => config.mqtt_topic = argv.mqtt_topic[1]

\* only --debug is given; the environment's source, device and TCP host are
\* kept, its broker settings and mock interval are not
C26_WitnessSourceFlags ==
    /\ Configured
    /\ input.argv.debug /\ input.argv.source = None
    /\ input.env.MESHCORE_SOURCE = Some("serial")
    /\ input.env.MESHCORE_MQTT_ENABLED = Some("false")
    /\ input.env.MESHCORE_MQTT_HOST = Some("broker.lan")
    /\ output[1][1].meshtastic_source = "serial"
    /\ output[1][1].mqtt_enabled
    /\ output[1][1].mqtt_host = "localhost"

(***************************************************************************)
(* SpecTimeAgo: the relative-time text and the status class of the         *)
(* dashboard (web.py) and of the TUI (widgets.py)                          *)
(***************************************************************************)
\* ages of last_seen in whole seconds: every one up to two minutes, and the
\* ages around the limits of the texts and of the classes
Ages ==
    (0..120) \cup {200, 299, 300, 301, 3599, 3600, 3601, 7199, 7200, 7201,
                   86399, 86400, 86401, 172799, 172800, 172801}

\* f"{int(x)}{unit} ago": the number and the unit of the text
Ago(n, unit) == << n, unit, " ago" >>

\* timeago_filter, web.py lines 364-381, for a last_seen that is not None
timeago_filter(seconds) ==
    IF seconds < 60 THEN Ago(seconds, "s")
    ELSE IF seconds < 3600 THEN Ago(seconds \div 60, "m")
    ELSE IF seconds < 86400 THEN Ago(seconds \div 3600, "h")
    ELSE Ago(seconds \div 86400, "d")

\* NodeTable._format_time_ago, widgets.py lines 50-60
format_time_ago(seconds) ==
    IF seconds < 60 THEN Ago(seconds, "s")
    ELSE IF seconds < 3600 THEN Ago(seconds \div 60, "m")
    ELSE IF seconds < 86400 THEN Ago(seconds \div 3600, "h")
    ELSE Ago(seconds \div 86400, "d")

\* status_class, web.py lines 430-443
status_class(diff) ==
    IF diff < 60 THEN "status-active"
    ELSE IF diff < 300 THEN "status-recent"
    ELSE IF diff < 3600 THEN "status-idle"
    ELSE "status-offline"

InitTimeAgo ==
    /\ InitFunction
    /\ \E d \in Ages : input = [seconds |-> d]

\* a row of the nodes table is rendered, in the dashboard and in the TUI
RenderLastSeen ==
    /\ output = << >>
    /\ input.seconds \in Ages
    /\ output' = << [timeago |-> timeago_filter(input.seconds),
                     time_ago |-> format_time_ago(input.seconds),
                     status |-> status_class(input.seconds)] >>
    /\ UNCHANGED input
    /\ FunctionUnchanged

SpecTimeAgo == InitTimeAgo /\ [][RenderLastSeen]_vars

(***************************************************************************)
(* C27: relative time and status                                           *)
(***************************************************************************)
Rendered == output # << >>

\* the text C27 gives for an age of d whole seconds
RelativeTime(d) ==
    IF d < 60 THEN Ago(d, "s")
    ELSE IF d < 3600 THEN Ago(d \div 60, "m")
    ELSE IF d < 86400 THEN Ago(d \div 3600, "h")
    ELSE Ago(d \div 86400, "d")

\* the relative-time part of C27: the text is "Ns ago" below a minute,
\* "Nm ago" below an hour, "Nh ago" below a day and "Nd ago" from there,
\* N rounded down, and it is the same in the dashboard and in the TUI
C27_RelativeTime ==
    Rendered =>
        /\ output[1].timeago = RelativeTime(input.seconds)
        /\ output[1].time_ago = output[1].timeago

\* C27 as stated: the texts as above, and the status is active at 45 s,
\* recent at 200 s, idle at 2 hours and offline at 2 days.
C27_TextAndStatus ==
    Rendered =>
        /\ C27_RelativeTime
        /\ input.seconds = 45 => output[1].status = "status-active"
        /\ input.seconds = 200 => output[1].status = "status-recent"
        /\ input.seconds = 7200 => output[1].status = "status-idle"
        /\ input.seconds = 172800 => output[1].status = "status-offline"

\* the status classes as the code has them
C27_StatusClasses ==
    Rendered =>
        output[1].status =
            (CASE input.seconds < 60 -> "status-active"
               [] input.seconds \in 60..299 -> "status-recent"
               [] input.seconds \in 300..3599 -> "status-idle"
               [] OTHER -> "status-offline")

\* two hours ago: "2h ago", and offline
C27_WitnessTwoHours ==
    /\ Rendered /\ input.seconds = 7200
    /\ output[1].timeago = << 2, "h", " ago" >>
    /\ output[1].time_ago = << 2, "h", " ago" >>
    /\ output[1].status = "status-offline"

(***************************************************************************)
(* SpecCommander: adapters/meshtastic/commander.py, a MeshtasticCommander  *)
(* and its callers, one call after the other                               *)
(***************************************************************************)
MaxCommands == 3

\* ports.py, lines 12-17: error is None unless given
CommandResult(success, message, error) ==
    [success |-> success, message |-> message, error |-> error]

\* __init__, lines 17-19: no interface yet.  opens: the outcome of every
\* SerialInterface(...) call made; closed: the interfaces that were closed;
\* results: what each call returned, with the interface it sent on
NewCommander ==
    [interface |-> 0, opens |-> << >>, closed |-> {}, results |-> << >>,
     raised |-> FALSE]

InitCommander ==
    /\ InitDirect /\ cfg.kind = "sqlite"
    /\ NewSqliteStore("SqliteEventStore")
    /\ task = [t \in Tasks |-> IdleTask(1)]
    /\ NewPublisher(DefaultMqttMaxRetries, DefaultInitialRetryDelay)
    /\ runner = NewRunner(TRUE)
    /\ final_stats = << >> /\ web = << >>
    /\ source = << >> /\ input = << >> /\ output = << >>
    /\ commander = NewCommander

CommanderUnchanged ==
    UNCHANGED << directVars, dbVars, mqVars, runner, final_stats, web,
                 source, input, output >>

Destinations == {None, Some("!a1b2c3d4"), Some("")}

\* lines 37, 73: dest_id = destination if destination else "^all"
dest_id(destination) ==
    IF destination = None \/ destination = Some("") THEN "^all"
    ELSE destination[1]

SentMessage(op) ==
    IF op = "send_text" THEN "Message sent to " ELSE "Position sent to "

FailureMessage(op) ==
    IF op = "send_text" THEN "Failed to send message"
    ELSE "Failed to send position"

\* the errors of the library: SerialInterface(...) and sendText/sendPosition
OpenError == "could not open port"
SendError == "timed out waiting for the device"

\* _ensure_connected, lines 20-25: the commander after the call; the
\* interface is opened only if there is none, and stays None if that fails
ensure_connected(c, open) ==
    IF c.interface # 0 THEN c
    ELSE IF open = "ok"
    THEN [c EXCEPT !.opens = Append(@, "ok"), !.interface = Len(c.opens) + 1]
    ELSE [c EXCEPT !.opens = Append(@, "error")]

CommandEntry(op, destination, used, result) ==
    [op |-> op, destination |-> destination, used |-> used,
     result |-> result]

\* a send whose failure is not caught
send_Raises(c, op, destination, open, send) ==
    LET c1 == ensure_connected(c, open)
    IN  IF c1.interface = 0 \/ send # "ok"
        THEN [c1 EXCEPT !.raised = TRUE]
        ELSE [c1 EXCEPT !.results = Append(@,
                 CommandEntry(op, destination, c1.interface,
                     CommandResult(TRUE, << SentMessage(op),
                                             dest_id(destination) >>,
                                   None)))]

\* send_text, lines 27-61, and send_position, lines 63-103: the commander
\* after the call; an exception of _ensure_connected or of the library's
\* send is caught and becomes the result
send(c, op, destination, open, send_outcome) ==
    LET c1 == ensure_connected(c, open)
    IN  IF c1.interface = 0
        THEN [c1 EXCEPT !.results = Append(@,
                 CommandEntry(op, destination, 0,
                     CommandResult(FALSE, FailureMessage(op),
                                   Some(OpenError))))]
        ELSE IF send_outcome # "ok"
        THEN [c1 EXCEPT !.results = Append(@,
                 CommandEntry(op, destination, c1.interface,
                     CommandResult(FALSE, FailureMessage(op),
                                   Some(SendError))))]
        ELSE [c1 EXCEPT !.results = Append(@,
                 CommandEntry(op, destination, c1.interface,
                     CommandResult(TRUE, << SentMessage(op),
                                             dest_id(destination) >>,
                                   None)))]

\* one call of send_text or send_position
SendCommand(op, destination, open, send_outcome) ==
    /\ calls < MaxCommands
    /\ ~ commander.raised
    /\ commander.interface # 0 => open = "ok"
    /\ (commander.interface = 0 /\ open # "ok") => send_outcome = "ok"
    /\ calls' = calls + 1
    /\ commander' = send(commander, op, destination, open, send_outcome)
    /\ CommanderUnchanged

\* close(), lines 105-109
CommanderClose ==
    /\ calls < MaxCommands
    /\ ~ commander.raised
    /\ calls' = calls + 1
    /\ commander' =
          (IF commander.interface # 0
           THEN [commander EXCEPT !.closed = @ \cup {commander.interface},
                                  !.interface = 0,
                                  !.results = Append(@,
                                      CommandEntry("close", None, 0, None))]
           ELSE [commander EXCEPT !.results = Append(@,
                                      CommandEntry("close", None, 0, None))])
    /\ CommanderUnchanged

NextCommander ==
    \/ \E op \in {"send_text", "send_position"} :
         \E destination \in Destinations :
           \E open, send_outcome \in {"ok", "error"} :
              SendCommand(op, destination, open, send_outcome)
    \/ CommanderClose

SpecCommander == InitCommander /\ [][NextCommander]_vars

(***************************************************************************)
(* C28: the real commander never raises                                    *)
(***************************************************************************)
Sends == {"send_text", "send_position"}

\* C28: send_text and send_position never raise: every call returns a
\* CommandResult, with success=true and no error after a successful send,
\* and with success=false, the generic failure message of the operation and
\* the text of the underlying error after a failure to open the interface or
\* to send.  The interface is opened by the first send, not before; a send
\* that finds an interface uses it and opens none; a send that finds none
\* (first use, after close(), after a failed open) tries to open one.
C28_NeverRaises ==
    /\ [](/\ ~ commander.raised
          /\ Len(commander.results) = calls
          /\ ((\A k \in 1..Len(commander.results) :
                 commander.results[k].op \notin Sends) =>
                     commander.opens = << >>)
          /\ \A k \in 1..Len(commander.results) :
                LET e == commander.results[k]
                IN  e.op \in Sends =>
                      IF e.result.success
                      THEN /\ e.result.error = None
                           /\ e.used # 0
                           /\ commander.opens[e.used] = "ok"
                      ELSE /\ e.result.message = FailureMessage(e.op)
                           /\ e.result.error \in
                                 {Some(OpenError), Some(SendError)}
                           /\ (e.used = 0 <=>
                                 e.result.error = Some(OpenError)))
    /\ [][ \A op \in Sends : \A d \in Destinations :
             \A o, s \in {"ok", "error"} :
               SendCommand(op, d, o, s) =>
                 /\ Len(commander'.results) = Len(commander.results) + 1
                 /\ commander.interface # 0 =>
                       /\ commander'.opens = commander.opens
                       /\ commander'.interface = commander.interface
                       /\ commander'.results[calls'].used =
                             commander.interface
                 /\ commander.interface = 0 =>
                       Len(commander'.opens) = Len(commander.opens) + 1
           ]_vars

\* the first open failed, the next send opened the interface and sent, the
\* third send used the same interface and failed
C28_Witness ==
    /\ calls = 3
    /\ commander.opens = << "error", "ok" >>
    /\ commander.results[1].result =
          CommandResult(FALSE, "Failed to send message", Some(OpenError))
    /\ commander.results[2].result.success
    /\ commander.results[2].used = 2
    /\ commander.results[3].used = 2
    /\ commander.results[3].result =
          CommandResult(FALSE, "Failed to send position", Some(SendError))

\* a send, close(), and a send that opened the interface again
C28_WitnessReopened ==
    /\ calls = 3
    /\ commander.opens = << "ok", "ok" >>
    /\ commander.results[2].op = "close"
    /\ commander.closed = {1}
    /\ commander.results[3].used = 2
    /\ commander.results[3].result.success

(***************************************************************************)
(* SpecMockCommander: commander.py, MockCommander                          *)
(***************************************************************************)
\* the calls made: send_text(text, destination, channel) and
\* send_position(latitude, longitude, altitude, destination); numbers are
\* written by their text
MockCalls ==
    [op : {"send_text"}, text : {"Test", "Hello", ""},
     destination : Destinations, channel : {"0", "1", "7"}]
    \cup
    [op : {"send_position"}, latitude : {"37.7749", "0.0", "-33.8688"},
     longitude : {"-122.4194", "0.0"}, altitude : {None, Some("100")},
     destination : Destinations]

\* dest = destination or "broadcast"
mock_dest(destination) ==
    IF destination = None \/ destination = Some("") THEN "broadcast"
    ELSE destination[1]

\* MockCommander.send_text, lines 112-124: the f-string of the message, by
\* its pieces
mock_send_text(text, destination, channel) ==
    CommandResult(TRUE, << "Message sent to ", mock_dest(destination) >>,
                  None)

\* MockCommander.send_position, lines 126-139
mock_send_position(latitude, longitude, altitude, destination) ==
    CommandResult(TRUE, << "Position sent to ", mock_dest(destination) >>,
                  None)

InitMockCommander ==
    /\ InitFunction
    /\ input \in MockCalls

\* the call returns, after its sleep of 0.1 s
MockReturns ==
    /\ output = << >>
    /\ input \in MockCalls
    /\ output' =
          << IF input.op = "send_text"
             THEN mock_send_text(input.text, input.destination,
                                 input.channel)
             ELSE mock_send_position(input.latitude, input.longitude,
                                     input.altitude, input.destination) >>
    /\ UNCHANGED input
    /\ FunctionUnchanged

SpecMockCommander == InitMockCommander /\ [][MockReturns]_vars

(***************************************************************************)
(* C29: what the mock commander returns                                    *)
(***************************************************************************)
\* the text is one of the pieces of the message
Echoes(message, text) == \E k \in 1..Len(message) : message[k] = text

\* the mock call has returned
MockReturned == output # << >> /\ input \in MockCalls

\* C29 as stated: the result is a success and its message echoes the
\* destination ("broadcast" when none is given) and the parameters of the
\* call: text and channel for send_text; latitude, longitude and altitude
\* for send_position.
C29_EchoesParameters ==
    MockReturned =>
        /\ output[1].success
        /\ Echoes(output[1].message, mock_dest(input.destination))
        /\ input.op = "send_text" =>
              /\ Echoes(output[1].message, input.text)
              /\ Echoes(output[1].message, input.channel)
        /\ input.op = "send_position" =>
              /\ Echoes(output[1].message, input.latitude)
              /\ Echoes(output[1].message, input.longitude)
              /\ input.altitude # None =>
                    Echoes(output[1].message, input.altitude[1])

\* what holds: a success, without error, whose message names the operation
\* and the destination and nothing else
C29_SuccessAndDestination ==
    MockReturned =>
        /\ output[1].success /\ output[1].error = None
        /\ output[1].message =
              << (IF input.op = "send_text" THEN "Message sent to "
                  ELSE "Position sent to "),
                 (IF input.destination \in {None, Some("")} THEN "broadcast"
                  ELSE input.destination[1]) >>

\* send_text("Test", channel=1): "Message sent to broadcast"
C29_WitnessDestinationOnly ==
    /\ MockReturned
    /\ input.op = "send_text" /\ input.text = "Test" /\ input.channel = "1"
    /\ input.destination = None
    /\ output[1] =
          CommandResult(TRUE, << "Message sent to ", "broadcast" >>, None)

(***************************************************************************)
(* adapters/meshtastic/source.py, tcp.py: MeshtasticSource and             *)
(* MeshtasticTcpSource.  The two classes differ in the interface they      *)
(* construct only.  source holds the packets the library has handed to     *)
(* _on_receive, the events put on _queue, the queue, the events yielded    *)
(* and the position of the consumer of events().  _on_receive is a plain   *)
(* function the interface calls from its reader thread while the event     *)
(* loop is suspended in queue.get(); asyncio.Queue is not thread-safe, so  *)
(* the wake-up of the suspended getter either reaches the loop or stays    *)
(* in its ready queue until something else wakes the loop.                 *)
(***************************************************************************)
MaxPackets == 3

\* what a packet carries: a text on port 1, telemetry on port 3, no decoded
\* part, or a port 1 payload that is neither bytes nor str
PacketKinds == {"text", "telemetry", "undecoded", "no_payload"}

\* translate_packet: None without a decoded part or with an empty payload,
\* else the event; n is the packet's place in the arrival order, which
\* stands for the fresh EventId
translate_packet(n, kind) ==
    IF kind = "undecoded" THEN None
    ELSE IF kind = "no_payload" THEN None
    ELSE Some([packet |-> n,
               event_type |-> kind,
               payload |-> PayloadFor(kind)])

\* MeshtasticSource(device): an empty queue, no interface
NewSource ==
    [connected |-> FALSE, received |-> << >>, put |-> << >>,
     queue |-> << >>, yielded |-> << >>, consumer |-> "new"]

InitSource ==
    /\ InitDirect /\ cfg.kind = "sqlite"
    /\ NewSqliteStore("SqliteEventStore")
    /\ task = [t \in Tasks |-> IdleTask(1)]
    /\ NewPublisher(DefaultMqttMaxRetries, DefaultInitialRetryDelay)
    /\ runner = NewRunner(TRUE)
    /\ final_stats = << >> /\ web = << >> /\ commander = << >>
    /\ input = << >> /\ output = << >>
    /\ source = NewSource

SourceUnchanged ==
    UNCHANGED << directVars, calls, dbVars, mqVars, runner, final_stats, web,
                 commander, input, output >>

\* the first pull of events(): await self._connect() constructs the
\* interface and sets its onReceive
Connect ==
    /\ source.consumer = "new"
    /\ source' = [source EXCEPT !.connected = TRUE, !.consumer = "running"]
    /\ SourceUnchanged

\* the wake-up of a suspended getter by a put_nowait made on the reader
\* thread: the future is done and its callback is in the loop's ready queue;
\* the loop runs it ("woken") or goes on sleeping in its selector ("stalled")
WakeUps == {"woken", "stalled"}

\* _on_receive(packet), called by the interface
OnReceive(kind) ==
    /\ source.connected
    /\ Len(source.received) < MaxPackets
    /\ LET n == Len(source.received) + 1
           ev == translate_packet(n, kind)
       IN  \E w \in WakeUps :
           source' =
              [source EXCEPT
                 !.received = Append(@, [n |-> n, kind |-> kind]),
                 !.put = IF ev # None THEN @ \o ev ELSE @,
                 !.queue = IF ev # None THEN @ \o ev ELSE @,
                 !.consumer = IF ev # None /\ @ = "suspended" THEN w ELSE @]
    /\ SourceUnchanged

\* event = await self._queue.get(); yield event: the head of the queue is
\* taken and yielded, or the consumer suspends on the empty queue
QueueGet ==
    /\ source.consumer = "running"
    /\ source' =
          IF source.queue = << >>
          THEN [source EXCEPT !.consumer = "suspended"]
          ELSE [source EXCEPT !.yielded = Append(@, Head(source.queue)),
                              !.queue = Tail(@)]
    /\ SourceUnchanged

\* the loop runs the getter's callback: get() takes the head and yields it
Resume ==
    /\ source.consumer = "woken"
    /\ source' =
          IF source.queue = << >>
          THEN [source EXCEPT !.consumer = "suspended"]
          ELSE [source EXCEPT !.yielded = Append(@, Head(source.queue)),
                              !.queue = Tail(@),
                              !.consumer = "running"]
    /\ SourceUnchanged

\* the loop's selector returns for another reason (a timer, a socket) and
\* the loop runs its ready queue
LoopWakes ==
    /\ source.consumer = "stalled"
    /\ source' = [source EXCEPT !.consumer = "woken"]
    /\ SourceUnchanged

Consumer == Connect \/ QueueGet \/ Resume

NextSource ==
    \/ Connect
    \/ \E kind \in PacketKinds : OnReceive(kind)
    \/ QueueGet
    \/ Resume
    \/ LoopWakes

\* the consumer keeps pulling and the loop runs what it has scheduled; the
\* arrival of packets and of other wake-ups of the loop is not promised
SpecSource == InitSource /\ [][NextSource]_vars /\ WF_vars(Consumer)

(***************************************************************************)
(* C30: packets, the queue and the consumer of events()                    *)
(***************************************************************************)
RECURSIVE Translated(_)
\* the events of the packets that translate to one, in arrival order
Translated(packets) ==
    IF packets = << >> THEN << >>
    ELSE LET p == Head(packets)
         IN  (IF p.kind \in {"text", "telemetry"}
              THEN << [packet |-> p.n, event_type |-> p.kind,
                       payload |-> PayloadFor(p.kind)] >>
              ELSE << >>) \o Translated(Tail(packets))

Enqueued(n) == \E k \in 1..Len(source.put) : source.put[k].packet = n

Yielded(n) == \E k \in 1..Len(source.yielded) : source.yielded[k].packet = n

\* C30 as stated: every enqueued event is eventually yielded to a consumer
\* that keeps pulling.
C30_EnqueuedEventuallyYielded ==
    \A n \in 1..MaxPackets : Enqueued(n) ~> Yielded(n)

\* C30, the part that holds: the events put on the queue are those of the
\* packets that translate to one, once each and in arrival order; the
\* events yielded followed by the queue are the events put, so each is
\* yielded at most once and in arrival order and a packet without an event
\* is neither enqueued nor yielded; the consumer is suspended on an empty
\* queue only.
C30_FifoExactlyOnce ==
    source # << >> =>
        /\ source.put = Translated(source.received)
        /\ source.yielded \o source.queue = source.put
        /\ source.consumer = "suspended" => source.queue = << >>

\* an event is on the queue, a packet without an event was received, and
\* the consumer's wake-up has not reached the loop
C30_WitnessStalled ==
    /\ source # << >>
    /\ source.consumer = "stalled"
    /\ source.queue # << >>
    /\ source.yielded # << >>
    /\ \E k \in 1..Len(source.received) :
          source.received[k].kind \in {"undecoded", "no_payload"}

(***************************************************************************)
(* adapters/meshtastic/translate.py: translate_packet and its decoders as  *)
(* functions of the packet.  A packet is its decoded section, missing or a *)
(* dict; the dict is given by the keys the decoders read: portnum (0: no   *)
(* such key), payload, deviceMetrics, a top-level voltage, position and    *)
(* user.  A decoded payload is the set of its (key, value) pairs.          *)
(***************************************************************************)
Ports == {0, 1, 3, 4, 5, 67}

PacketPayloads == {Absent, "utf8 bytes", "other bytes", "str", "int"}

DecodedDicts ==
    [portnum : Ports,
     payload : PacketPayloads,
     deviceMetrics : {Absent, "{}", "batteryLevel", "unrecognised"},
     voltage : BOOLEAN,
     position : {Absent, "{}", "latitudeI"},
     user : {Absent, "{}", "id"}]

Packets == [decoded : {None} \cup { Some(d) : d \in DecodedDicts }]

\* not decoded: the dict has no key
IsEmptyDecoded(d) ==
    /\ d.portnum = 0 /\ d.payload = Absent /\ d.deviceMetrics = Absent
    /\ ~d.voltage /\ d.position = Absent /\ d.user = Absent

\* {"raw": str(decoded)}
RawOf(d) == {<< "raw", "str(decoded)" >>}

\* _event_type_from_port, a defaultdict
event_type_from_port(portnum) ==
    CASE portnum = 1 -> "text"
      [] portnum = 3 -> "telemetry"
      [] portnum = 4 -> "position"
      [] portnum = 5 -> "node_info"
      [] OTHER -> "unknown"

\* the same without the fallback to {"raw": ...}
decode_telemetry_NoFallback(d) ==
    LET device == IF d.deviceMetrics = "batteryLevel"
                  THEN {<< "battery_level", "85" >>} ELSE {}
    IN  IF device # {} THEN device
        ELSE IF d.voltage THEN {<< "voltage", "3.7" >>} ELSE {}

\* _decode_telemetry: the metrics found; without any, the top-level keys;
\* without any, {"raw": ...}
decode_telemetry(d) ==
    LET device == IF d.deviceMetrics = "batteryLevel"
                  THEN {<< "battery_level", "85" >>} ELSE {}
        telemetry == IF device # {} THEN device
                     ELSE IF d.voltage THEN {<< "voltage", "3.7" >>} ELSE {}
    IN  IF telemetry # {} THEN telemetry ELSE RawOf(d)

\* _decode_position
decode_position(d) ==
    LET position == IF d.position = "latitudeI"
                    THEN {<< "latitude", "37.7749" >>,
                          << "longitude", "-122.4194" >>}
                    ELSE {}
    IN  IF position # {} THEN position ELSE RawOf(d)

\* _decode_node_info
decode_node_info(d) ==
    LET node_info == IF d.user = "id"
                     THEN {<< "node_id", "!a1b2c3d4" >>} ELSE {}
    IN  IF node_info # {} THEN node_info ELSE RawOf(d)

\* decoded.get("payload", b""): bytes when the key is missing
payload_bytes(d) == IF d.payload = Absent THEN "utf8 bytes" ELSE d.payload

\* _decode_payload
decode_payload(portnum, d) ==
    CASE portnum = 1 ->
            (CASE payload_bytes(d) = "utf8 bytes" -> {<< "text", "hello" >>}
               [] payload_bytes(d) = "other bytes" -> {<< "raw", "fffe" >>}
               [] payload_bytes(d) = "str" -> {<< "text", "hello" >>}
               [] OTHER -> {})
      [] portnum = 3 -> decode_telemetry(d)
      [] portnum = 4 -> decode_position(d)
      [] portnum = 5 -> decode_node_info(d)
      [] OTHER ->
            IF payload_bytes(d) \in {"utf8 bytes", "other bytes"}
            THEN {<< "raw", "fffe" >>}
            ELSE {}

\* translate_packet(packet)
translate(packet) ==
    IF packet.decoded = None THEN None
    ELSE LET d == packet.decoded[1]
         IN  IF IsEmptyDecoded(d) THEN None
             ELSE LET payload == decode_payload(d.portnum, d)
                  IN  IF payload = {} THEN None
                      ELSE Some([event_type |->
                                    event_type_from_port(d.portnum),
                                 payload |-> payload,
                                 portnum |-> d.portnum])

InitTranslate ==
    /\ InitFunction
    /\ input \in Packets

\* event = translate_packet(packet)
TranslatePacket ==
    /\ output = << >>
    /\ input \in Packets
    /\ output' = << translate(input) >>
    /\ UNCHANGED input
    /\ FunctionUnchanged

SpecTranslate == InitTranslate /\ [][TranslatePacket]_vars

(***************************************************************************)
(* C31: when translate_packet returns no event, and the event's type       *)
(***************************************************************************)
Translated31 == output # << >> /\ input \in Packets

HasDecoded(p) == p.decoded # None /\ ~IsEmptyDecoded(p.decoded[1])

\* C31: translate_packet returns no event exactly when the decoded section
\* is missing or empty or the decoder of the port yields an empty payload;
\* a packet of port 3, 4 or 5 with a non-empty decoded section always gives
\* an event; the event's type is text, telemetry, position, node_info for
\* ports 1, 3, 4, 5 and unknown for any other port.
C31_NoEventExactlyWhen ==
    Translated31 =>
        LET ev == output[1]
            d == input.decoded[1]
        IN  /\ ev = None <=>
                  \/ ~HasDecoded(input)
                  \/ /\ d.portnum = 1
                     /\ d.payload = "int"
                  \/ /\ d.portnum \notin {1, 3, 4, 5}
                     /\ d.payload \in {"str", "int"}
            /\ (HasDecoded(input) /\ d.portnum \in {3, 4, 5}) => ev # None
            /\ ev # None =>
                  /\ ev[1].payload # {}
                  /\ d.portnum = 1 => ev[1].event_type = "text"
                  /\ d.portnum = 3 => ev[1].event_type = "telemetry"
                  /\ d.portnum = 4 => ev[1].event_type = "position"
                  /\ d.portnum = 5 => ev[1].event_type = "node_info"
                  /\ d.portnum \notin {1, 3, 4, 5} =>
                        ev[1].event_type = "unknown"

\* a telemetry packet whose decoded section holds the port only gives an
\* event with the raw payload
C31_Witness ==
    /\ Translated31
    /\ HasDecoded(input)
    /\ input.decoded[1].portnum = 3
    /\ input.decoded[1].deviceMetrics = Absent
    /\ ~input.decoded[1].voltage
    /\ output[1] # None
    /\ output[1][1].payload = RawOf(input.decoded[1])

\* a text packet whose payload is neither bytes nor str gives no event
C31_WitnessNoEvent ==
    /\ Translated31
    /\ HasDecoded(input)
    /\ input.decoded[1].portnum = 1
    /\ input.decoded[1].payload = "int"
    /\ output[1] = None

(***************************************************************************)
(* C32: an event id is folded and handed to the publisher at most once     *)
(***************************************************************************)
NoRepeat(ids) ==
    \A i, j \in 1..Len(ids) : i < j => ids[i] # ids[j]

\* C32: whatever the source emits (an id may be emitted again) and whichever
\* calls of event_exists, append, project and publish fail, no event id is
\* folded into node state twice and none is handed to the publisher twice.
C32_AtMostOnce ==
    /\ NoRepeat(hist.folded)
    /\ NoRepeat(hist.handed)

\* an id was emitted twice, a call failed, and the id has been folded and
\* handed to the publisher; the second emission has been dealt with
C32_Witness ==
    /\ pc = "pull"
    /\ Len(pulled) = 2
    /\ pulled[1].event_id = pulled[2].event_id
    /\ faults > 0
    /\ hist.folded = << pulled[1].event_id >>
    /\ hist.handed = << pulled[1].event_id >>

\* the first emission was stored but its projection failed on every attempt;
\* the second emission is skipped, and the id is never folded
C32_WitnessNeverFolded ==
    /\ pc = "pull"
    /\ Len(pulled) = 2
    /\ pulled[1].event_id = pulled[2].event_id
    /\ cfg.projection
    /\ event_exists(store, pulled[1].event_id)
    /\ duplicate_count = 1
    /\ hist.folded = << >>

(***************************************************************************)
(* C33, C36: the event store against the state store                       *)
(***************************************************************************)
\* event_count of the node's state, 0 without a state
EventCount(n) ==
    IF get_node(states, n) = None THEN 0
    ELSE get_node(states, n)[1].event_count

\* the number of stored events of the node
StoredCount(n) ==
    Cardinality({ k \in 1..Len(StoredEvents(store)) :
                    StoredEvents(store)[k].node_id = n })

BetweenEvents == pc = "pull" \/ pc \in Terminal

\* C33 as stated: between events and at termination, with a projection
\* configured, event_count of each node equals the number of stored events of
\* that node, whichever appends and projections failed.
C33_StoresAgree ==
    (BetweenEvents /\ cfg.projection) =>
        \A n \in Nodes : EventCount(n) = StoredCount(n)

\* C33 for a run without a failed call and without cancellation: the counts
\* agree between events
C33_StoresAgreeWhileRunning ==
    (pc = "pull" /\ cfg.projection /\ faults = 0) =>
        \A n \in Nodes : EventCount(n) = StoredCount(n)

\* an event is stored, the service is between events and was not cancelled,
\* and the event's node has no state
C33_WitnessStoredNotFolded ==
    /\ pc = "pull"
    /\ cfg.projection
    /\ \E n \in Nodes : StoredCount(n) = 1 /\ EventCount(n) = 0

(***************************************************************************)
(* C34: the three counters of run()                                        *)
(***************************************************************************)
\* C34: whenever run() is about to pull the next event, processed + error +
\* duplicate is the number of events pulled so far, and no step lowers a
\* counter: every pulled event raises exactly one counter by one.
C34_CountersPartition ==
    /\ [](pc = "pull" =>
            processed_count + error_count + duplicate_count = Len(pulled))
    /\ [][/\ processed_count' >= processed_count
          /\ error_count' >= error_count
          /\ duplicate_count' >= duplicate_count]_vars

\* two events were pulled: one was processed, the other counted as an error
C34_Witness ==
    /\ pc = "pull"
    /\ Len(pulled) >= 2
    /\ processed_count = 1
    /\ error_count = 1
    /\ duplicate_count = 0

(***************************************************************************)
(* C35: what a processed event has gone through                            *)
(***************************************************************************)
\* the call is in the log of the current event with the result ok
LoggedOk(l, op) == \E k \in 1..Len(l) : l[k].op = op /\ l[k].res = "ok"

\* the step counts the current event as processed
CountsProcessed == processed_count' = processed_count + 1

\* C35 as stated: for every max_retries, 0 included, an event is counted as
\* processed only if an append of it completed and, with a projection
\* configured, it was projected.
C35_ProcessedOnlyIfStored ==
    [][CountsProcessed =>
          /\ LoggedOk(log', "append")
          /\ event_exists(store', event.event_id)
          /\ cfg.projection => LoggedOk(log', "project")]_vars

\* C35 for max_retries >= 1
C35_ProcessedOnlyIfStoredWithAttempts ==
    [][(CountsProcessed /\ cfg.max_retries >= 1) =>
          /\ LoggedOk(log', "append")
          /\ event_exists(store', event.event_id)
          /\ cfg.projection => LoggedOk(log', "project")]_vars

\* with max_retries = 0 an event was counted as processed and the event
\* store is empty
C35_WitnessNothingStored ==
    /\ cfg.max_retries = 0
    /\ pc = "pull"
    /\ processed_count = 1
    /\ StoredEvents(store) = << >>

RECURSIVE SumEventCount(_)
\* the sum of event_count over the nodes
SumEventCount(nodes) ==
    IF nodes = {} THEN 0
    ELSE LET n == CHOOSE x \in nodes : TRUE
         IN  EventCount(n) + SumEventCount(nodes \ {n})

\* C36: in every state of a run of the service, the states between the calls
\* of an event included, each id folded into node state is in the event
\* store, no node's event_count exceeds its number of stored events, and
\* the sum of event_count over the nodes does not exceed the number of
\* stored events.
C36_StateNotAhead ==
    /\ \A k \in 1..Len(hist.folded) : event_exists(store, hist.folded[k])
    /\ \A n \in Nodes : EventCount(n) <= StoredCount(n)
    /\ SumEventCount(Nodes) <= Len(StoredEvents(store))

\* two events of one node are stored, the first is folded and run() is
\* about to project the second
C36_Witness ==
    /\ pc = "project"
    /\ Len(hist.folded) = 1
    /\ EventCount(event.node_id) = 1
    /\ StoredCount(event.node_id) = 2
    /\ faults > 0

(***************************************************************************)
(* C37: close() against a database operation in flight                     *)
(***************************************************************************)
\* the tasks whose operation has passed _ensure_connection and has not yet
\* left "async with self._lock"
PastConnectionCheck == { t \in Tasks : task[t].pc \in {"waiting", "in_db"} }

\* C37 as stated: close() never takes effect while another task's database
\* operation is between its connection check and its completion.
C37_CloseExcluded ==
    [][(PastConnectionCheck # {} /\ db_conn # 0) => db_conn' # 0]_vars

\* C37 on one event loop only
C37_CloseExcludedOnOneLoop ==
    [][(OneLoop /\ PastConnectionCheck # {} /\ db_conn # 0)
          => db_conn' # 0]_vars

(***************************************************************************)
(* application/state_projection.py: two tasks that call project() for the  *)
(* same node on one state store.  project() awaits get_node and then       *)
(* upsert_node; with the SQLite store each of the two suspends the task    *)
(* (lock, worker thread), with the in-memory store neither does, so there  *)
(* project() runs to its end without another task in between.  input holds *)
(* the events, output where each task is and what it has read.             *)
(***************************************************************************)
RaceNode == "node-alpha"

\* the events of the node, one per type
RaceEvents ==
    { MeshEvent(1, RaceNode, ty, 1, PayloadFor(ty)) : ty \in EventTypes }

\* an event projected before the two tasks start, or none, and the events of
\* the two tasks
RaceInputs ==
    [prior : {None, Some(MeshEvent(1, RaceNode, "telemetry", 1,
                                   TelemetryPayload))},
     events : [1..2 -> RaceEvents]]

RaceTask == [pc |-> "start", existing |-> None]

InitRace ==
    /\ InitDirect
    /\ NewSqliteStore("SqliteStateStore")
    /\ task = [t \in Tasks |-> IdleTask(1)]
    /\ NewPublisher(DefaultMqttMaxRetries, DefaultInitialRetryDelay)
    /\ runner = NewRunner(TRUE)
    /\ final_stats = << >> /\ web = << >> /\ commander = << >>
    /\ source = << >>
    /\ input \in RaceInputs
    /\ output = [started |-> FALSE, before |-> 0,
                 tasks |-> [t \in 1..2 |-> RaceTask]]

RaceUnchanged ==
    UNCHANGED << cfg, pc, event, attempt, processed_count, error_count,
                 duplicate_count, store, published, pulled, faults, log,
                 snap, hist, calls, dbVars, mqVars, runner, final_stats,
                 web, commander, source, input >>

\* the prior event, if any, is projected; then the two tasks are created
StartTasks ==
    /\ ~ output.started
    /\ states' = IF input.prior = None THEN states
                 ELSE project(states, input.prior[1])
    /\ output' = [output EXCEPT
                    !.started = TRUE,
                    !.before = IF input.prior = None THEN 0 ELSE 1]
    /\ RaceUnchanged

\* line 16: existing = await self._state_store.get_node(event.node_id)
GetNode(t) ==
    /\ output.started
    /\ cfg.kind = "sqlite"
    /\ output.tasks[t].pc = "start"
    /\ output' = [output EXCEPT
                    !.tasks[t] = [pc |-> "got",
                                  existing |-> get_node(states, RaceNode)]]
    /\ UNCHANGED states
    /\ RaceUnchanged

\* lines 17-21: the state is computed from what was read and upserted
UpsertComputed(t) ==
    /\ output.tasks[t].pc = "got"
    /\ LET existing == output.tasks[t].existing
           e == input.events[t]
           state == IF existing # None THEN update_state(existing[1], e)
                    ELSE create_state(e)
       IN  states' = upsert_node(states, state)
    /\ output' = [output EXCEPT !.tasks[t].pc = "done"]
    /\ RaceUnchanged

\* lines 15-21 on the in-memory store: no await suspends the task
ProjectUnsuspended(t) ==
    /\ output.started
    /\ cfg.kind = "memory"
    /\ output.tasks[t].pc = "start"
    /\ states' = project(states, input.events[t])
    /\ output' = [output EXCEPT !.tasks[t].pc = "done"]
    /\ RaceUnchanged

NextRace ==
    \/ StartTasks
    \/ \E t \in 1..2 : GetNode(t)
    \/ \E t \in 1..2 : UpsertComputed(t)
    \/ \E t \in 1..2 : ProjectUnsuspended(t)

SpecRace == InitRace /\ [][NextRace]_vars

(***************************************************************************)
(* C38: two interleaved project() calls for one node                       *)
(***************************************************************************)
BothProjected ==
    /\ input \in RaceInputs
    /\ \A t \in 1..2 : output.tasks[t].pc = "done"

\* the snapshot field of the event's type holds the event's payload
Reflected(st, e) ==
    /\ e.event_type = "telemetry" => st.last_telemetry = Some(e.payload)
    /\ e.event_type = "position" => st.last_position = Some(e.payload)
    /\ e.event_type = "text" => st.last_text = DictGet(e.payload, "text")

\* C38 as stated: after two project() calls for the same node, interleaved at
\* their awaits, event_count has grown by exactly 2 and the node's state
\* reflects the snapshot field of each event.
C38_NoLostUpdate ==
    BothProjected =>
        /\ EventCount(RaceNode) = output.before + 2
        /\ \A t \in 1..2 :
              Reflected(get_node(states, RaceNode)[1], input.events[t])

\* C38 on the in-memory store, where a project() call is never suspended
C38_NoLostUpdateUnsuspended ==
    (BothProjected /\ cfg.kind = "memory") =>
        /\ EventCount(RaceNode) = output.before + 2
        /\ \A t \in 1..2 :
              Reflected(get_node(states, RaceNode)[1], input.events[t])

\* both calls have returned on the SQLite store; the count has grown by one
\* and the telemetry of the first task's event is not in the node's state
C38_WitnessLostUpdate ==
    /\ BothProjected
    /\ cfg.kind = "sqlite"
    /\ input.events[1].event_type = "telemetry"
    /\ input.events[2].event_type = "text"
    /\ EventCount(RaceNode) = output.before + 1
    /\ get_node(states, RaceNode)[1].last_telemetry = None

(***************************************************************************)
(* adapters/storage/replay.py: the ingestion service fed by a              *)
(* ReplayEventSource.  input holds the source's arguments: the store that  *)
(* is replayed as it is when run() starts (the service's own event store,  *)
(* or another store of the same kind), the window, and for a SQLite store  *)
(* the rows that _fetch_all returns at the first pull.  The in-memory      *)
(* replay walks the list _events itself, so what it yields next is read    *)
(* off the store as it is at that pull.                                     *)
(***************************************************************************)
\* the event stores that hold up to two events, with distinct ids
ReplayStores(kind) ==
    LET new == NewEventStore(kind)
        one == { append(new, e)[1] : e \in SourceEvents }
        two == { append(s, e)[1] : << s, e >> \in one \X SourceEvents }
    IN  {new} \cup one \cup two

\* since and until of the source
ReplayWindows ==
    { << None, None >>, << Some(MaxTime), None >>, << None, Some(1) >> }

InitReplay ==
    /\ cfg \in Configs
    /\ pc = "pull"
    /\ event = NoEvent
    /\ attempt = 0
    /\ processed_count = 0 /\ error_count = 0 /\ duplicate_count = 0
    /\ \E same \in BOOLEAN : \E s \in ReplayStores(cfg.kind) :
       \E w \in ReplayWindows : \E r \in replay(s, w[1], w[2]) :
          /\ input = [same |-> same, replayed |-> s, since |-> w[1],
                      until |-> w[2], fetched |-> r]
          /\ store = IF same THEN s ELSE NewEventStore(cfg.kind)
    /\ states = NewStateStore(cfg.kind)
    /\ published = << >>
    /\ pulled = << >>
    /\ faults = 0
    /\ log = << >>
    /\ snap = Snapshot
    /\ hist = NoHistory
    /\ calls = 0
    /\ NewSqliteStore("SqliteEventStore")
    /\ task = [t \in Tasks |-> IdleTask(1)]
    /\ NewPublisher(DefaultMqttMaxRetries, DefaultInitialRetryDelay)
    /\ runner = NewRunner(TRUE)
    /\ final_stats = << >> /\ web = << >> /\ commander = << >>
    /\ source = << >> /\ output = << >>

\* the store self._store of the source, as it is now
ReplayedStore == IF input.same THEN store ELSE input.replayed

\* ReplayRemaining, but the source starts over at every pull
ReplayRemaining_FromStart ==
    IF cfg.kind = "sqlite" THEN input.fetched
    ELSE InMemoryEventStore_replay(ReplayedStore, input.since, input.until)

\* what the generator has still to yield.  SQLite: the rows fetched, without
\* those yielded.  In memory: the events of the list behind the one yielded
\* last that are inside the window.
ReplayRemaining ==
    IF cfg.kind = "sqlite"
    THEN SubSeq(input.fetched, Len(pulled) + 1, Len(input.fetched))
    ELSE LET all == ReplayedStore.events
             at == IF pulled = << >> THEN 0
                   ELSE CHOOSE k \in 1..Len(all) :
                           all[k] = pulled[Len(pulled)]
             rest == [ReplayedStore EXCEPT
                        !.events = SubSeq(all, at + 1, Len(all))]
         IN  InMemoryEventStore_replay(rest, input.since, input.until)

\* async for event in self._store.replay(...): yield event
ReplayPull ==
    /\ ReplayRemaining # << >>
    /\ Pull(Head(ReplayRemaining))

\* replay() is exhausted, so is events(), and run() returns
ReplayExhausted ==
    /\ ReplayRemaining = << >>
    /\ SourceExhausted

NextReplay ==
    \/ ReplayPull
    \/ ReplayExhausted
    \/ ExistsDuplicate
    \/ ExistsNew
    \/ ExistsFails
    \/ AppendOk
    \/ AppendFails
    \/ ProjectOk
    \/ ProjectFails
    \/ PublishOk
    \/ PublishFails
    \/ RetrySleep

\* run() is not cancelled and the event loop keeps running it
SpecReplay == InitReplay /\ [][NextReplay]_vars /\ WF_vars(NextReplay)

(***************************************************************************)
(* C39: the service fed by a replay of a store                             *)
(***************************************************************************)
\* the events replay(since, until) yields for the store as it was at the
\* start
ReplayExpected ==
    IF cfg.kind = "sqlite" THEN input.fetched
    ELSE InMemoryEventStore_replay(input.replayed, input.since, input.until)

\* C39: the service pulls the replayed events once each and in replay order,
\* and run() then returns; when the replayed store is the service's own
\* event store, the event store and the node states stay as they were,
\* nothing is published and nothing is counted as processed, and with no
\* failed call every replayed event is counted as a duplicate.
C39_ReplayedOnce ==
    /\ [](input # << >> =>
            /\ Len(pulled) <= Len(ReplayExpected)
            /\ pulled = SubSeq(ReplayExpected, 1, Len(pulled))
            /\ pc = "done" => pulled = ReplayExpected
            /\ input.same =>
                  /\ store = input.replayed
                  /\ states = NewStateStore(cfg.kind)
                  /\ published = << >>
                  /\ hist = NoHistory
                  /\ processed_count = 0
                  /\ (pc \in {"pull", "done"} /\ faults = 0) =>
                        duplicate_count = Len(pulled))
    /\ <>(pc = "done")

\* run() has returned after a replay of its own store of two events, both
\* skipped as duplicates
C39_Witness ==
    /\ input # << >>
    /\ input.same
    /\ pc = "done"
    /\ Len(pulled) = 2
    /\ duplicate_count = 2
    /\ processed_count = 0

\* run() has returned after a replay of another store, one event left out
\* by the window, the other processed
C39_WitnessOtherStore ==
    /\ input # << >>
    /\ ~ input.same
    /\ pc = "done"
    /\ Len(input.replayed.events) = 2
    /\ Len(pulled) = 1
    /\ processed_count = 1
    /\ Len(StoredEvents(store)) = 1

=============================================================================
